---- MODULE Spec2Model ----
(***************************************************************************)
(* Model of the Recursive Self-Aggregation orchestrator of the pony swarm  *)
(* (ARF/pwnies/desktop_pony_swarm/core): PonySwarm, DesktopPonyAgent,      *)
(* SwarmEmbeddingManager over MultiScaleEmbedding, the Horde backends and  *)
(* the adaptive parameter selector.                                        *)
(*                                                                         *)
(* One orchestration call is a coroutine; every await of it is a step      *)
(* boundary.  The tasks that asyncio.gather runs are modelled one record   *)
(* per task, so every completion order of a fan-out is a behaviour.        *)
(* Lists are TLA+ sequences: the source's index i is position i + 1.       *)
(***************************************************************************)
EXTENDS Integers, Sequences, FiniteSets, TLC

\* ------------------------------------------------------------------ bounds
\* Largest swarm size num_ponies explored.
MaxN == 2
\* Largest round count T a caller passes.
MaxT == 3
\* Largest total_generations N * T of a call that is explored.
MaxWork == 4
\* Number of recursive_self_aggregation calls made on one swarm.
MaxCalls == 2
\* Capability calls per orchestration call that fail, hang or raise.
MaxFaults == 1
\* Largest K of a single_step_aggregation call (the default is 4).
MaxK == 3
\* Status polls of one generation request before it times out.  The source
\* sets max_attempts = 120 (horde_client.py, line 82); the model keeps the
\* loop and scales the count.
max_attempts == 2
MaxAdds == 103
MaxChars == 3
MaxSelectors == 2
MaxSplitLen == 7

\* ------------------------------------------------------- program constants
\* The value of an omitted K or T argument (Optional[int] = None).
NoneVal == -1
\* K and T used when the caller gives none and adaptive selection is off.
DefaultK == 2
DefaultT == 3
max_context_size == 100
EmbeddingDim == 384
DigestLen == 32

\* ------------------------------------------------------------------ texts
\* The queries explored, and what the lexical scans of the source find in
\* them: len(query), len(query.split()), len(re.split(r'[.!?]+', query)) and
\* the number of matching math / reasoning / creative patterns.
QCalc == "Calculate 5 + 3"
QCrisis == "I can't go on"
QExplain == "Explain why the sky is blue and how rainbows form"
Queries == {QCalc, QCrisis, QExplain}
\* Two more queries, for the estimator and the selector alone.
QCreative == "Write a creative story exploring multiple philosophical themes"
QStory == "Write a creative story about AI consciousness. Consider multiple perspectives and philosophical implications. Explore themes of identity, free will, and emergence."
SelectorQueries == {QCalc, QExplain, QCreative, QStory}

QueryFeatures(q) ==
    CASE q = QCalc ->
           [chars |-> 15, words |-> 4, sentences |-> 1,
            math |-> 3, reasoning |-> 0, creative |-> 0, crisis |-> FALSE]
      [] q = QCrisis ->
           [chars |-> 13, words |-> 4, sentences |-> 1,
            math |-> 0, reasoning |-> 0, creative |-> 0, crisis |-> TRUE]
      [] q = QCreative ->
           [chars |-> 62, words |-> 8, sentences |-> 1,
            math |-> 0, reasoning |-> 0, creative |-> 2, crisis |-> FALSE]
      [] q = QStory ->
           [chars |-> 163, words |-> 21, sentences |-> 4,
            math |-> 0, reasoning |-> 0, creative |-> 3, crisis |-> FALSE]
      [] OTHER ->
           [chars |-> 49, words |-> 10, sentences |-> 1,
            math |-> 0, reasoning |-> 3, creative |-> 0, crisis |-> FALSE]

\* Scans of further queries, on both sides of every bucket boundary of the
\* estimator: every pair of a length and a word count without keywords,
\* and every pair of keyword counts on the shortest and the longest query.
\* A query has at least as many characters as words.
FeatureInputs ==
    {f \in [chars : {49, 50, 149, 150, 299, 300},
            words : {9, 10, 24, 25, 49, 50},
            sentences : {3, 4},
            math : {0, 1},
            reasoning : {0, 2, 3},
            creative : {0, 2, 3},
            crisis : {FALSE}] :
        /\ f.words <= f.chars
        /\ \/ f.reasoning = 0 /\ f.creative = 0
           \/ f.chars = 49 /\ f.words = 9
           \/ f.chars = 300 /\ f.words = 50}

\* user_state values: an empty dict, and one of a user in recovery whose
\* stress_level is above 8.
UserStates == {"calm", "stressed"}

\* A prompt is the query alone (round 1) or an aggregation prompt.
NoPrompt == [kind |-> "none", query |-> "", candidates |-> <<>>]
QueryPrompt(q) == [kind |-> "query", query |-> q, candidates |-> <<>>]

\* A response text: which pony's personality prompt produced it, to which
\* prompt, and the error message when it is an "[Error] ..." string.
OkText(i, p) == [by |-> i, err |-> "", to |-> p]
ErrText(i, msg) == [by |-> i, err |-> msg, to |-> NoPrompt]
IsErrorMarked(x) == x.err # ""


\* ------------------------------------------------- agent: safety pre-check
\* DesktopPonyAgent.check_crisis_indicators: an alert text, or NoAlert.  The
\* keyword scan runs on the lowered text; the stress rule reads user_state.
NoAlert == [kind |-> "none", pony |-> 0]
check_crisis_indicators(i, text, user_state) ==
    IF QueryFeatures(text).crisis
    THEN [kind |-> "CRISIS ALERT", pony |-> i]
    ELSE IF user_state = "stressed"
         THEN [kind |-> "WELLBEING", pony |-> i]
         ELSE NoAlert

RECURSIVE CrisisFrom(_, _, _, _)
CrisisFrom(i, n, query, user_state) ==
    IF i >= n THEN NoAlert
    ELSE LET alert == check_crisis_indicators(i, query, user_state) IN
         IF alert # NoAlert THEN alert
         ELSE CrisisFrom(i + 1, n, query, user_state)

\* The check consulting every pony but the first.
check_all_ponies_skip_first(n, query, user_state) ==
    CrisisFrom(1, n, query, user_state)

\* PonySwarm._check_all_ponies_for_crisis over ponies 0 .. n-1, in order.
check_all_ponies_for_crisis(n, query, user_state) ==
    CrisisFrom(0, n, query, user_state)

\* ------------------------------------------- complexity and parameter tiers
Min(a, b) == IF a < b THEN a ELSE b
Max(a, b) == IF a > b THEN a ELSE b

\* A variant of the estimate that leaves the clamp out.
complexity_score_unclamped(f) ==
    (IF f.chars < 50 THEN 5
     ELSE IF f.chars < 150 THEN 20
     ELSE IF f.chars < 300 THEN 40 ELSE 60)
    + (IF f.words < 10 THEN 0
       ELSE IF f.words < 25 THEN 10
       ELSE IF f.words < 50 THEN 20 ELSE 30)
    + (IF f.sentences > 3 THEN 15 ELSE 0)
    - (IF f.math > 0 THEN 10 ELSE 0)
    + (IF f.reasoning > 2 THEN 15 ELSE IF f.reasoning > 0 THEN 5 ELSE 0)
    + (IF f.creative > 2 THEN 30 ELSE IF f.creative > 0 THEN 15 ELSE 0)

\* ComplexityEstimator.estimate_complexity from the scans of the query on:
\* the length buckets, the sentence bonus, the keyword terms and the clamp
\* to 0 .. 100 (lines 92-147).
complexity_score(f) ==
    LET len == IF f.chars < 50 THEN 5
               ELSE IF f.chars < 150 THEN 20
               ELSE IF f.chars < 300 THEN 40 ELSE 60
        wrd == IF f.words < 10 THEN 0
               ELSE IF f.words < 25 THEN 10
               ELSE IF f.words < 50 THEN 20 ELSE 30
        sen == IF f.sentences > 3 THEN 15 ELSE 0
        mth == IF f.math > 0 THEN 0 - 10 ELSE 0
        rsn == IF f.reasoning > 2 THEN 15
               ELSE IF f.reasoning > 0 THEN 5 ELSE 0
        cre == IF f.creative > 2 THEN 30
               ELSE IF f.creative > 0 THEN 15 ELSE 0
    IN  Max(0, Min(100, len + wrd + sen + mth + rsn + cre))

\* ComplexityEstimator.estimate_complexity of a query.
estimate_complexity(q) == complexity_score(QueryFeatures(q))

\* AdaptiveParameterSelector.DEFAULT_CONFIGS and the default thresholds.
DEFAULT_CONFIGS ==
    [simple  |-> [N |-> 2, K |-> 1, T |-> 2],
     medium  |-> [N |-> 4, K |-> 2, T |-> 3],
     complex |-> [N |-> 6, K |-> 3, T |-> 4]]
thresholds == [simple |-> 20, medium |-> 60]

\* AdaptiveParameterSelector(): the selector is [configs, thresholds].
NewSelector == [configs |-> DEFAULT_CONFIGS, thresholds |-> thresholds]

\* A variant of the tier choice with inclusive thresholds.
config_level_inclusive(th, complexity) ==
    IF complexity <= th.simple THEN "simple"
    ELSE IF complexity <= th.medium THEN "medium"
    ELSE "complex"

\* The tier select_parameters picks for a complexity (lines 213-218).
config_level(th, complexity) ==
    IF complexity < th.simple THEN "simple"
    ELSE IF complexity < th.medium THEN "medium"
    ELSE "complex"

\* AdaptiveParameterSelector.select_parameters from the estimate on.
select_by_score(sel, complexity) ==
    sel.configs[config_level(sel.thresholds, complexity)]

\* AdaptiveParameterSelector.select_parameters.
select_parameters(sel, q) == select_by_score(sel, estimate_complexity(q))

\* A variant of update_config that writes the params to every level.
update_config_all_levels(sel, level, params) ==
    IF level \notin DOMAIN sel.configs
    THEN [raised |-> "ValueError", sel |-> sel]
    ELSE [raised |-> "",
          sel |-> [sel EXCEPT !.configs = [l \in DOMAIN sel.configs |-> params]]]

\* AdaptiveParameterSelector.update_config: an unknown level raises
\* ValueError, a known one takes the params as they are.
update_config(sel, level, params) ==
    IF level \notin DOMAIN sel.configs
    THEN [raised |-> "ValueError", sel |-> sel]
    ELSE [raised |-> "",
          sel |-> [sel EXCEPT !.configs[level] = params]]

\* A variant in which a call promotes the simple tier to the medium
\* params.
SelectorAfterSelect_Promotes(sel) ==
    [sel EXCEPT !.configs["simple"] = sel.configs["medium"]]

\* select_parameters and estimate_complexity read the selector and leave
\* it as it is.
SelectorAfterSelect(sel) == sel

\* Python truthiness of an Optional[int]: None and 0 are falsy.
Truthy(x) == x # NoneVal /\ x # 0

\* Lines 116-128 of recursive_self_aggregation: the K and T the call runs
\* with, from the arguments as passed.
ResolveParams(adaptive, sel, q, Kin, Tin) ==
    IF adaptive /\ (Kin = NoneVal \/ Tin = NoneVal)
    THEN LET params == select_parameters(sel, q) IN
         [K |-> IF Truthy(Kin) THEN Kin ELSE params.K,
          T |-> IF Truthy(Tin) THEN Tin ELSE params.T]
    ELSE [K |-> IF Truthy(Kin) THEN Kin ELSE DefaultK,
          T |-> IF Truthy(Tin) THEN Tin ELSE DefaultT]

\* ---------------------------------------------------- aggregation prompts
\* PonySwarm._build_aggregation_prompt: the self-refinement template reads
\* candidates[0] only; the aggregation template lists every candidate.
build_aggregation_prompt(q, candidates, K) ==
    IF K = 1
    THEN [kind |-> "refine", query |-> q, candidates |-> <<candidates[1]>>]
    ELSE [kind |-> "aggregate", query |-> q, candidates |-> candidates]

\* K draws with replacement from 0 .. N-1.
Samples_WithReplacement(N, K) ==
    IF K > N THEN {} ELSE [1..K -> 0..(N - 1)]

\* Blocks numbered from 0.
SolutionBlocks_ZeroBased(prompt) ==
    IF prompt.kind = "aggregate"
    THEN [a \in 1..Len(prompt.candidates) |->
             [label |-> a - 1, text |-> prompt.candidates[a]]]
    ELSE <<>>

\* The "---- Solution n ----" blocks of the rendered prompt, in order
\* (lines 322-325): one per candidate of the aggregation template, none in
\* the self-refinement template.
SolutionBlocks(prompt) ==
    IF prompt.kind = "aggregate"
    THEN [a \in 1..Len(prompt.candidates) |->
             [label |-> a, text |-> prompt.candidates[a]]]
    ELSE <<>>

\* random.sample(range(N), K): the ordered K-samples without replacement of
\* 0 .. N-1; the empty set stands for the ValueError of K > N.
Samples(N, K) ==
    IF K > N THEN {}
    ELSE {s \in [1..K -> 0..(N - 1)] :
            \A a, b \in 1..K : a # b => s[a] # s[b]}

\* ------------------------------------------------------------- embeddings
\* Dimension of the vectors of the model (the backends use 384).
Dim == 2

Axis(k) == [j \in 1..Dim |-> IF j = k THEN 1 ELSE 0]

\* The embedding backends are deterministic in the text (a character-code
\* vector, or one seeded by the text's hash) and normalise to unit length.
\* The model keeps text -> unit vector as a function of the text.
TextCode(text) ==
    text.by + Len(text.to.candidates) + (IF IsErrorMarked(text) THEN 1 ELSE 0)
EmbedVector(text) == Axis((TextCode(text) % Dim) + 1)

VecAdd(u, v) == [j \in 1..Dim |-> u[j] + v[j]]
RECURSIVE VecSum(_)
\* np.sum(vectors, axis=0) of a non-empty list of vectors.
VecSum(vs) ==
    IF Len(vs) = 1 THEN vs[1] ELSE VecAdd(vs[1], VecSum(Tail(vs)))

RECURSIVE DotFrom(_, _, _)
DotFrom(u, v, j) ==
    IF j > Len(u) THEN 0 ELSE u[j] * v[j] + DotFrom(u, v, j + 1)
Dot(u, v) == DotFrom(u, v, 1)

\* -------------------------------------------------- MultiScaleEmbedding
\* levels: level name -> embedding id -> [vector, metadata].  The id
\* "pony_{i}_t{r}" is the pair <<i, r>>, "community_t{r}" is the round r.
Put(f, k, v) == [x \in (DOMAIN f) \cup {k} |-> IF x = k THEN v ELSE f[x]]
EmptyDict == [x \in {} |-> 0]
fine_id(i, r) == <<i, r>>

\* An add_embedding without the check of the id: the entry is replaced.
add_embedding_overwrite(lv, level, embedding_id, vector, metadata) ==
    LET lv1 == IF level \in DOMAIN lv THEN lv
               ELSE [x \in (DOMAIN lv) \cup {level} |->
                        IF x = level THEN [y \in {} |-> 0] ELSE lv[x]]
    IN  [raised |-> "",
         levels |-> [x \in DOMAIN lv1 |->
                       IF x # level THEN lv1[x]
                       ELSE [y \in (DOMAIN lv1[level]) \cup {embedding_id} |->
                               IF y = embedding_id
                               THEN [vector |-> vector, metadata |-> metadata]
                               ELSE lv1[level][y]]]]

\* MultiScaleEmbedding.add_embedding: the level is created on demand, an id
\* already present raises ValueError and changes nothing else.
add_embedding(lv, level, embedding_id, vector, metadata) ==
    LET lv1 == IF level \in DOMAIN lv THEN lv ELSE Put(lv, level, EmptyDict) IN
    IF embedding_id \in DOMAIN lv1[level]
    THEN [raised |-> "ValueError", levels |-> lv1]
    ELSE [raised |-> "",
          levels |-> Put(lv1, level,
                         Put(lv1[level], embedding_id,
                             [vector |-> vector, metadata |-> metadata]))]

RECURSIVE FirstMissing(_, _)
\* Position of the first id of fine_ids that is not in the fine level, or 0.
FirstMissing(fine, fine_ids) ==
    IF fine_ids = <<>> THEN 0
    ELSE IF Head(fine_ids) \notin DOMAIN fine THEN 1
    ELSE LET r == FirstMissing(fine, Tail(fine_ids)) IN
         IF r = 0 THEN 0 ELSE r + 1

RECURSIVE Present(_, _)
\* The ids of fine_ids that are in the fine level, in order.
Present(fine, fine_ids) ==
    IF fine_ids = <<>> THEN <<>>
    ELSE IF Head(fine_ids) \in DOMAIN fine
         THEN <<Head(fine_ids)>> \o Present(fine, Tail(fine_ids))
         ELSE Present(fine, Tail(fine_ids))

VectorsOf(fine, ids) == [j \in 1..Len(ids) |-> fine[ids[j]].vector]

\* An aggregator that averages: the elementwise sum divided by the number
\* of vectors (whole part).
default_aggregator_mean(vectors) ==
    [j \in 1..Dim |-> VecSum(vectors)[j] \div Len(vectors)]

\* MultiScaleEmbedding._default_aggregator: the elementwise sum; an empty
\* list raises ValueError.
default_aggregator(vectors) == VecSum(vectors)

\* MultiScaleEmbedding.add_coarse_level for one coarse id: the coarse level
\* is created empty before the children are looked up, so a missing child
\* (KeyError) leaves the empty level behind.
add_coarse_level(lv, coarse_level, fine_level, coarse_id, fine_ids) ==
    IF fine_level \notin DOMAIN lv
    THEN [raised |-> "KeyError", levels |-> lv]
    ELSE IF coarse_level \in DOMAIN lv
    THEN [raised |-> "ValueError", levels |-> lv]
    ELSE LET lv1 == Put(lv, coarse_level, EmptyDict) IN
         IF FirstMissing(lv[fine_level], fine_ids) # 0
         THEN [raised |-> "KeyError", levels |-> lv1]
         ELSE IF fine_ids = <<>>
         THEN [raised |-> "ValueError", levels |-> lv1]
         ELSE [raised |-> "",
               levels |-> Put(lv1, coarse_level,
                   Put(EmptyDict, coarse_id,
                       [vector |-> default_aggregator(
                                       VectorsOf(lv[fine_level], fine_ids)),
                        metadata |-> [children |-> fine_ids]]))]

\* ------------------------------------------------ SwarmEmbeddingManager
\* The manager is [levels, history]: the MultiScaleEmbedding and
\* iteration_history (round -> list of [pony_id, embedding_id, response]).
\* Metadata: aggregated_from is <<>> where round 1 stores no such key;
\* response_text is response[:100], and the texts here are within that
\* length.
add_pony_response(mgr, pony, iteration, response, vector, aggregated_from) ==
    LET embedding_id == fine_id(pony, iteration)
        r == add_embedding(mgr.levels, "fine", embedding_id, vector,
                 [pony_id |-> pony, iteration |-> iteration,
                  response_text |-> response,
                  aggregated_from |-> aggregated_from])
        old == IF iteration \in DOMAIN mgr.history
               THEN mgr.history[iteration] ELSE <<>>
    IN  IF r.raised # ""
        THEN [raised |-> r.raised,
              mgr |-> [levels |-> r.levels, history |-> mgr.history]]
        ELSE [raised |-> "",
              mgr |-> [levels |-> r.levels,
                       history |-> Put(mgr.history, iteration,
                           Append(old, [pony_id |-> pony,
                                        embedding_id |-> embedding_id,
                                        response |-> response]))]]

\* An aggregation that writes no community entry.
aggregate_to_community_skipped(mgr, iteration, n) ==
    [raised |-> "", mgr |-> mgr]

\* The ids "pony_{i}_t{iteration}" of ponies 0 .. n-1, in pony order.
FineIds(n, iteration) == [j \in 1..n |-> fine_id(j - 1, iteration)]

\* SwarmEmbeddingManager.aggregate_to_community for ponies 0 .. n-1.  The
\* first aggregation goes through add_coarse_level; later ones look the
\* children up themselves, skip the missing ones and write the sum of the
\* rest (nothing when none is found).
aggregate_to_community(mgr, iteration, n) ==
    LET fine_ids == FineIds(n, iteration) IN
    IF "community" \notin DOMAIN mgr.levels
    THEN LET r == add_coarse_level(mgr.levels, "community", "fine",
                                   iteration, fine_ids)
         IN  [raised |-> r.raised,
              mgr |-> [levels |-> r.levels, history |-> mgr.history]]
    ELSE LET fine == IF "fine" \in DOMAIN mgr.levels
                     THEN mgr.levels["fine"] ELSE EmptyDict
             found == Present(fine, fine_ids)
         IN  IF found = <<>>
             THEN [raised |-> "", mgr |-> mgr]
             ELSE [raised |-> "",
                   mgr |-> [levels |-> Put(mgr.levels, "community",
                               Put(mgr.levels["community"], iteration,
                                   [vector |-> VecSum(VectorsOf(fine, found)),
                                    metadata |-> [children |-> found]])),
                            history |-> mgr.history]]

RECURSIVE PairDistances_Adjacent(_, _, _)
\* A variant that visits the neighbouring pairs i, i + 1 only.
PairDistances_Adjacent(vs, i, j) ==
    IF i >= Len(vs) THEN 0
    ELSE (1 - Dot(vs[i], vs[i + 1])) + PairDistances_Adjacent(vs, i + 1, i + 2)

RECURSIVE PairDistances(_, _, _)
\* Sum over the pairs i < j of 1 - cos_sim of vs[i] and vs[j]; the vectors
\* of the model have length 1 or 0, so the dot product of the normalised
\* vectors (vec / (norm + 1e-10)) is the dot product of the vectors.
PairDistances(vs, i, j) ==
    IF i >= Len(vs) THEN 0
    ELSE IF j > Len(vs) THEN PairDistances(vs, i + 1, i + 2)
    ELSE (1 - Dot(vs[i], vs[j])) + PairDistances(vs, i, j + 1)

\* The vectors get_diversity_metric collects for a round: those of the
\* round's history entries that are found in the fine level, in order.
RoundVectors(mgr, iteration) ==
    IF iteration \notin DOMAIN mgr.history THEN <<>>
    ELSE LET entries == mgr.history[iteration]
             fine == mgr.levels["fine"]
         IN  VectorsOf(fine, Present(fine, [j \in 1..Len(entries) |->
                                               entries[j].embedding_id]))

\* np.array and np.dot need vectors of one length.
SameShape(vs) == \A a, b \in 1..Len(vs) : Len(vs[a]) = Len(vs[b])

\* SwarmEmbeddingManager.get_diversity_metric: total_distance / count as
\* the fraction [num, den]; 0 for an unknown round or fewer than 2 vectors.
get_diversity_metric(mgr, iteration) ==
    IF iteration \notin DOMAIN mgr.history THEN [num |-> 0, den |-> 1]
    ELSE LET entries == mgr.history[iteration]
             fine == mgr.levels["fine"]
             ids == Present(fine, [j \in 1..Len(entries) |->
                                       entries[j].embedding_id])
             vs == VectorsOf(fine, ids)
             n == Len(vs)
         IN  IF n < 2 THEN [num |-> 0, den |-> 1]
             ELSE [num |-> PairDistances(vs, 1, 2),
                   den |-> (n * (n - 1)) \div 2]

\* Fractions [num, den], den > 0, for the float arithmetic on diversities.
FracAdd(a, b) == [num |-> a.num * b.den + b.num * a.den, den |-> a.den * b.den]
RECURSIVE FracSum(_)
FracSum(fs) ==
    IF fs = <<>> THEN [num |-> 0, den |-> 1]
    ELSE FracAdd(Head(fs), FracSum(Tail(fs)))
FracEq(a, b) == a.num * b.den = b.num * a.den
FracLeq(a, b) == a.num * b.den <= b.num * a.den

\* ------------------------------------------------------------------ state
VARIABLES
    num_ponies,             \* PonySwarm.num_ponies (N), fixed at construction
    use_adaptive_params,    \* PonySwarm.use_adaptive_params
    param_selector,         \* PonySwarm.param_selector: [configs, thresholds],
                            \* None without adaptive params
    api_result,             \* outcome of the last direct call of the
                            \* estimator, the selector or the store
    context_buffer,         \* DesktopPonyAgent.context_buffer of one pony
    config_dicts,           \* the configs mappings that exist, by reference:
                            \* 0 is the class attribute DEFAULT_CONFIGS
    selectors,              \* selectors built by callers: each holds the
                            \* reference of its configs mapping
    horde_client,           \* TRUE once the ponies hold a backend client
    embedding_manager,      \* PonySwarm.embedding_manager: [levels, history]
    metrics,                \* PonySwarm.metrics: [total_queries, avg_diversity]
    pc,                     \* where the orchestration coroutine stands
    call,                   \* arguments and resolved K, T of the current call
    t,                      \* round of the current call
    population,             \* local population
    responses,              \* result of the generation gather of round t
    embeddings,             \* result of the embedding gather of round t
    aggregation_data,       \* local aggregation_data of round t >= 2
    gen_tasks,              \* generate_response tasks of the current gather
    emb_tasks,              \* generate_embedding tasks of the current gather
    i,                      \* index of the storing loop
    iteration_history,      \* local iteration_history
    result,                 \* what the last call returned or raised
    n_calls,                \* calls made on this swarm
    n_completed,            \* calls that returned a full (non-crisis) result
    faults,                 \* capability faults used up in the current call
    issued                  \* capability calls and store writes of the call,
                            \* and whether a call returned before the call
                            \* of a lower slot of the same gather

vars == <<num_ponies, use_adaptive_params, param_selector, api_result,
          context_buffer, config_dicts, selectors, horde_client, embedding_manager,
          metrics, pc, call, t, population, responses, embeddings,
          aggregation_data, gen_tasks, emb_tasks, i, iteration_history,
          result, n_calls, n_completed, faults, issued>>

swarm_vars == <<num_ponies, use_adaptive_params, param_selector, api_result,
                context_buffer, config_dicts, selectors>>
swarm_config == <<num_ponies, use_adaptive_params, param_selector,
                  context_buffer, config_dicts, selectors>>
call_counts == <<n_calls, n_completed>>

NoText == [by |-> 0, err |-> "", to |-> NoPrompt]
NoResult == [kind |-> "none"]
NoCall == [query |-> "", user_state |-> "calm",
           Kin |-> NoneVal, Tin |-> NoneVal, K |-> 0, T |-> 0]
NoApiResult == [op |-> "none"]
\* param_selector of a swarm built with use_adaptive_params False: None.
NoSelector == [is_none |-> TRUE]
\* The capability calls and store writes a call has issued, whether a
\* task finished before one created earlier, and the values the call has
\* taken from the module-level random source, in the order it took them.
NoIssued == [generate |-> 0, embed |-> 0, record |-> 0, overtaken |-> FALSE,
             draws |-> <<>>]
\* One value taken from the random source: the index list of a
\* random.sample, or the position picked by a random.choice.
SampleDraw(indices) == [op |-> "sample", indices |-> indices]
ChoiceDraw(k) == [op |-> "choice", indices |-> <<k>>]
Raise(exc) == [kind |-> "raise", exc |-> exc]

\* Argument values a caller passes for K and T.
KArgs == {NoneVal} \cup (0..MaxN)
TArgs == {NoneVal} \cup (0..MaxT)

\* A task of asyncio.gather: created, then in flight at its capability call,
\* then done with a result or raised with an exception.
NewGenTask(round, prompt) ==
    [round |-> round, st |-> "created", attempts |-> 0, prompt |-> prompt,
     result |-> NoText, exc |-> ""]
NewEmbTask(round, text) ==
    [round |-> round, st |-> "created", text |-> text, result |-> Axis(0),
     exc |-> ""]

\* Task j ends while the task of a lower slot is still in flight.
Overtakes(tasks, j) == \E k \in 1..(j - 1) : tasks[k].st = "inflight"
Overtaken(tasks, j) ==
    [issued EXCEPT !.overtaken = @ \/ Overtakes(tasks, j)]

Unfinished(tasks) ==
    \E j \in 1..Len(tasks) : tasks[j].st \in {"created", "inflight"}
Quiescent == ~Unfinished(gen_tasks) /\ ~Unfinished(emb_tasks)

\* PonySwarm.__init__ with num_ponies ponies, no client attached yet.
Init ==
    /\ num_ponies \in 1..MaxN
    /\ use_adaptive_params \in BOOLEAN
    /\ param_selector = IF use_adaptive_params THEN NewSelector ELSE NoSelector
    /\ api_result = NoApiResult
    /\ context_buffer = <<>>
    /\ config_dicts = Put(EmptyDict, 0, DEFAULT_CONFIGS)
    /\ selectors = <<>>
    /\ horde_client = FALSE
    /\ embedding_manager = [levels |-> EmptyDict, history |-> EmptyDict]
    /\ metrics = [total_queries |-> 0, avg_diversity |-> <<>>]
    /\ pc = "idle"
    /\ call = NoCall
    /\ t = 0
    /\ population = <<>>
    /\ responses = <<>>
    /\ embeddings = <<>>
    /\ aggregation_data = <<>>
    /\ gen_tasks = <<>>
    /\ emb_tasks = <<>>
    /\ i = 0
    /\ iteration_history = <<>>
    /\ result = NoResult
    /\ n_calls = 0
    /\ n_completed = 0
    /\ faults = 0
    /\ issued = NoIssued


\* --------------------------------------------------------------- actions
\* PonySwarm.__aenter__: every pony enters and attaches its backend client.
AEnter ==
    /\ pc \in {"idle", "returned", "raised"}
    /\ Quiescent
    /\ ~horde_client
    /\ horde_client' = TRUE
    /\ UNCHANGED <<swarm_vars, embedding_manager, metrics, pc, call, t,
                   population, responses, embeddings, aggregation_data,
                   gen_tasks, emb_tasks, i, iteration_history, result,
                   call_counts, faults, issued>>

\* The result dict of the safety short-circuit (lines 138-142).
CrisisResult(alert) ==
    [kind |-> "return", keys |-> {"response", "is_crisis", "iterations"},
     response |-> alert, is_crisis |-> TRUE, iterations |-> <<>>]

\* The tasks of the round-1 fan-out: pony.generate_response(query) for
\* every pony (line 153).
Round1Tasks(n, q) == [j \in 1..n |-> NewGenTask(1, QueryPrompt(q))]

\* recursive_self_aggregation(query, K, T, user_state) up to its first
\* await: parameter resolution, the crisis check, and either the crisis
\* return or the creation of the round-1 generation tasks.
Enter(q, us, Kin, Tin) ==
    LET params == ResolveParams(use_adaptive_params, param_selector, q,
                                Kin, Tin)
        crisis_alert == check_all_ponies_for_crisis(num_ponies, q, us)
    IN
    /\ pc \in {"idle", "returned", "raised"}
    /\ Quiescent
    /\ num_ponies * params.T <= MaxWork
    /\ n_calls' = n_calls + 1
    /\ UNCHANGED n_completed
    /\ call' = [query |-> q, user_state |-> us, Kin |-> Kin, Tin |-> Tin,
                K |-> params.K, T |-> params.T]
    /\ metrics' = [metrics EXCEPT !.total_queries = @ + 1]
    /\ population' = <<>>
    /\ responses' = <<>>
    /\ embeddings' = <<>>
    /\ aggregation_data' = <<>>
    /\ emb_tasks' = <<>>
    /\ i' = 0
    /\ iteration_history' = <<>>
    /\ faults' = 0
    /\ issued' = NoIssued
    /\ IF crisis_alert # NoAlert
       THEN /\ result' = CrisisResult(crisis_alert)
            /\ pc' = "returned"
            /\ t' = 0
            /\ gen_tasks' = <<>>
       ELSE /\ result' = NoResult
            /\ pc' = "gen"
            /\ t' = 1
            /\ gen_tasks' = Round1Tasks(num_ponies, q)
    /\ UNCHANGED <<swarm_vars, horde_client, embedding_manager>>

\* The first call on a swarm, with any arguments.
Call(q, us, Kin, Tin) ==
    /\ n_calls = 0
    /\ Enter(q, us, Kin, Tin)

\* A further call on the same swarm.  The callers of the repository pass
\* the same configured K and T on every call (run_swarm.py, lines 81-85
\* and 128-132); the query and the user state vary.
CallAgain(q, us) ==
    /\ n_calls >= 1
    /\ n_calls < MaxCalls
    /\ Enter(q, us, call.Kin, call.Tin)

\* Awaiting the calls one after the other: call j starts when the calls
\* before it are over.
NextToStart_Serialized(tasks, j) ==
    /\ j \in 1..Len(tasks)
    /\ tasks[j].st = "created"
    /\ \A k \in 1..(j - 1) : tasks[k].st \in {"done", "raised"}

\* asyncio runs the tasks of a gather in the order they were passed: task j
\* takes its first step once the tasks before it have taken theirs.
NextToStart(tasks, j) ==
    /\ j \in 1..Len(tasks)
    /\ tasks[j].st = "created"
    /\ \A k \in 1..(j - 1) : tasks[k].st # "created"

\* DesktopPonyAgent.generate_response up to the await of generate_text
\* (lines 123-141).  Without a client the name HordeClient, imported only
\* inside __aenter__, is unbound: NameError, outside the try block.
StartGen(j) ==
    /\ NextToStart(gen_tasks, j)
    /\ IF horde_client
       THEN /\ gen_tasks' = [gen_tasks EXCEPT ![j].st = "inflight"]
            /\ issued' = [issued EXCEPT !.generate = @ + 1]
       ELSE /\ gen_tasks' = [gen_tasks EXCEPT ![j].st = "raised",
                                              ![j].exc = "NameError"]
            /\ UNCHANGED issued
    /\ UNCHANGED <<swarm_vars, horde_client, embedding_manager, metrics, pc,
                   call, t, population, responses, embeddings,
                   aggregation_data, emb_tasks, i, iteration_history,
                   result, call_counts, faults>>

\* What generate_response returns when generate_text returned text
\* (response.strip(), line 151) and when it raised (line 155).
GenReturn(pony, prompt) == OkText(pony, prompt)
GenRecover(pony, msg) == ErrText(pony, msg)

\* The backend answers: generate_text returns the generated text.
CompleteGen(j) ==
    /\ j \in 1..Len(gen_tasks)
    /\ gen_tasks[j].st = "inflight"
    /\ gen_tasks' = [gen_tasks EXCEPT
                        ![j].st = "done",
                        ![j].result = GenReturn(j - 1, gen_tasks[j].prompt)]
    /\ issued' = Overtaken(gen_tasks, j)
    /\ UNCHANGED <<swarm_vars, horde_client, embedding_manager, metrics, pc,
                   call, t, population, responses, embeddings,
                   aggregation_data, emb_tasks, i, iteration_history,
                   result, call_counts, faults>>

\* The backend fails (bad status, no request id, faulted generation):
\* generate_text raises and generate_response recovers.
FailGen(j) ==
    /\ j \in 1..Len(gen_tasks)
    /\ gen_tasks[j].st = "inflight"
    /\ faults < MaxFaults
    /\ faults' = faults + 1
    /\ gen_tasks' = [gen_tasks EXCEPT
                        ![j].st = "done",
                        ![j].result = GenRecover(j - 1, "Horde request failed")]
    /\ issued' = Overtaken(gen_tasks, j)
    /\ UNCHANGED <<swarm_vars, horde_client, embedding_manager, metrics, pc,
                   call, t, population, responses, embeddings,
                   aggregation_data, emb_tasks, i, iteration_history,
                   result, call_counts>>

\* A polling loop whose timeout is not caught by generate_response: the
\* task ends with the exception.
PollStep_TimeoutRaises(task, pony) ==
    IF task.attempts + 1 >= max_attempts
    THEN [task EXCEPT !.st = "raised", !.attempts = @ + 1,
                      !.exc = "Generation timeout"]
    ELSE [task EXCEPT !.attempts = @ + 1]

\* One pass of the polling loop of HordeClient.generate_text with the
\* request not done (lines 83-99); after max_attempts passes the loop ends
\* and "Generation timeout" is raised (line 101), which generate_response
\* recovers like any failure.
PollStep(task, pony) ==
    IF task.attempts + 1 >= max_attempts
    THEN [task EXCEPT !.st = "done", !.attempts = @ + 1,
                      !.result = GenRecover(pony, "Generation timeout")]
    ELSE [task EXCEPT !.attempts = @ + 1]

PollGen(j) ==
    /\ j \in 1..Len(gen_tasks)
    /\ gen_tasks[j].st = "inflight"
    /\ gen_tasks[j].attempts > 0 \/ faults < MaxFaults
    /\ faults' = IF gen_tasks[j].attempts = 0 THEN faults + 1 ELSE faults
    /\ gen_tasks' = [gen_tasks EXCEPT ![j] = PollStep(gen_tasks[j], j - 1)]
    /\ issued' = IF PollStep(gen_tasks[j], j - 1).st = "done"
                 THEN Overtaken(gen_tasks, j) ELSE issued
    /\ UNCHANGED <<swarm_vars, horde_client, embedding_manager, metrics, pc,
                   call, t, population, responses, embeddings,
                   aggregation_data, emb_tasks, i, iteration_history,
                   result, call_counts>>

\* A wait that ends with the first finished task.
AllDone_FirstCompleted(tasks) ==
    \E j \in 1..Len(tasks) : tasks[j].st = "done"

\* The results in reverse task order.
GatherResults_Reversed(tasks) ==
    [j \in 1..Len(tasks) |-> tasks[Len(tasks) + 1 - j].result]

\* The results in task order unless a task finished before one created
\* earlier; then in reverse task order.
GatherResults_ByArrival(tasks) ==
    [j \in 1..Len(tasks) |->
        IF issued.overtaken THEN tasks[Len(tasks) + 1 - j].result
        ELSE tasks[j].result]

\* await asyncio.gather(*tasks) returns when every task is done; the
\* results are in task order, whatever the completion order.
AllDone(tasks) == \A j \in 1..Len(tasks) : tasks[j].st = "done"
GatherResults(tasks) == [j \in 1..Len(tasks) |-> tasks[j].result]

\* The embedding tasks of a round: ponies[i].generate_embedding(responses[i])
\* for every i (lines 157-160 and 219-222).
EmbeddingTasks(round, texts) ==
    [j \in 1..Len(texts) |-> NewEmbTask(round, texts[j])]

\* The generation gather returns (lines 154 and 216) and the embedding
\* tasks are created.
GatherGen ==
    /\ pc = "gen"
    /\ AllDone(gen_tasks)
    /\ responses' = GatherResults(gen_tasks)
    /\ emb_tasks' = EmbeddingTasks(t, GatherResults(gen_tasks))
    /\ pc' = "emb"
    /\ UNCHANGED <<swarm_vars, horde_client, embedding_manager, metrics,
                   call, t, population, embeddings, aggregation_data,
                   gen_tasks, i, iteration_history, result, call_counts, faults,
                   issued>>

\* asyncio.gather without return_exceptions: the exception of a task is
\* raised into the awaiting coroutine, which has no handler and so raises
\* out of recursive_self_aggregation; the other tasks are left running.
GatherRaises ==
    /\ \/ pc = "gen" /\ \E j \in 1..Len(gen_tasks) :
             /\ gen_tasks[j].st = "raised"
             /\ result' = Raise(gen_tasks[j].exc)
       \/ pc = "emb" /\ \E j \in 1..Len(emb_tasks) :
             /\ emb_tasks[j].st = "raised"
             /\ result' = Raise(emb_tasks[j].exc)
    /\ pc' = "raised"
    /\ UNCHANGED <<swarm_vars, horde_client, embedding_manager, metrics,
                   call, t, population, responses, embeddings,
                   aggregation_data, gen_tasks, emb_tasks, i,
                   iteration_history, call_counts, faults, issued>>

\* DesktopPonyAgent.generate_embedding up to the await of the backend
\* (lines 159-162); there is no try block around the backend call.
StartEmb(j) ==
    /\ NextToStart(emb_tasks, j)
    /\ IF horde_client
       THEN /\ emb_tasks' = [emb_tasks EXCEPT ![j].st = "inflight"]
            /\ issued' = [issued EXCEPT !.embed = @ + 1]
       ELSE /\ emb_tasks' = [emb_tasks EXCEPT ![j].st = "raised",
                                              ![j].exc = "NameError"]
            /\ UNCHANGED issued
    /\ UNCHANGED <<swarm_vars, horde_client, embedding_manager, metrics, pc,
                   call, t, population, responses, embeddings,
                   aggregation_data, gen_tasks, i, iteration_history,
                   result, call_counts, faults>>

\* The embedding backend returns the vector of the text.
CompleteEmb(j) ==
    /\ j \in 1..Len(emb_tasks)
    /\ emb_tasks[j].st = "inflight"
    /\ emb_tasks' = [emb_tasks EXCEPT
                        ![j].st = "done",
                        ![j].result = EmbedVector(emb_tasks[j].text)]
    /\ issued' = Overtaken(emb_tasks, j)
    /\ UNCHANGED <<swarm_vars, horde_client, embedding_manager, metrics, pc,
                   call, t, population, responses, embeddings,
                   aggregation_data, gen_tasks, i, iteration_history,
                   result, call_counts, faults>>

\* What generate_embedding does when the backend call raises: nothing
\* catches it, the task ends with the exception.
EmbFailure(task) == [task EXCEPT !.st = "raised", !.exc = "EmbeddingError"]

\* The embedding backend raises.
FailEmb(j) ==
    /\ j \in 1..Len(emb_tasks)
    /\ emb_tasks[j].st = "inflight"
    /\ faults < MaxFaults
    /\ faults' = faults + 1
    /\ emb_tasks' = [emb_tasks EXCEPT ![j] = EmbFailure(emb_tasks[j])]
    /\ UNCHANGED <<swarm_vars, horde_client, embedding_manager, metrics, pc,
                   call, t, population, responses, embeddings,
                   aggregation_data, gen_tasks, i, iteration_history,
                   result, call_counts, issued>>

\* The embedding gather returns (lines 161 and 223); the storing loop
\* starts.
GatherEmb ==
    /\ pc = "emb"
    /\ AllDone(emb_tasks)
    /\ embeddings' = GatherResults(emb_tasks)
    /\ i' = 0
    /\ pc' = "store"
    /\ UNCHANGED <<swarm_vars, horde_client, embedding_manager, metrics,
                   call, t, population, responses, aggregation_data,
                   gen_tasks, emb_tasks, iteration_history, result, call_counts,
                   faults, issued>>

\* The storing loop runs over all N (response, embedding) pairs; k pairs
\* are stored.
AfterStore(k, n) == IF k = n THEN "aggregate" ELSE "store"

\* One pass of the storing loop (lines 163-173 in round 1, 226-236 later):
\* round 1 appends the response to the population first; the vector goes to
\* the fine level under the pony's id and the round.  A ValueError of the
\* store is not handled.
StoreResponse ==
    LET response == responses[i + 1]
        from == IF t = 1 THEN <<>> ELSE aggregation_data[i + 1].subset_indices
        r == add_pony_response(embedding_manager, i, t, response,
                               embeddings[i + 1], from)
    IN
    /\ pc = "store"
    /\ i < num_ponies
    /\ population' = IF t = 1 THEN Append(population, response)
                     ELSE population
    /\ embedding_manager' = r.mgr
    /\ IF r.raised # ""
       THEN /\ pc' = "raised"
            /\ result' = Raise(r.raised)
            /\ UNCHANGED <<i, issued>>
       ELSE /\ i' = i + 1
            /\ issued' = [issued EXCEPT !.record = @ + 1]
            /\ pc' = AfterStore(i + 1, num_ponies)
            /\ UNCHANGED result
    /\ UNCHANGED <<swarm_vars, horde_client, metrics, call, t, responses,
                   embeddings, aggregation_data, gen_tasks, emb_tasks,
                   iteration_history, call_counts, faults>>

\* Lines 175-179 and 238-245: from round 2 on the population is replaced
\* by the new one, then the round is aggregated to the community level.
AggregateRound ==
    LET r == aggregate_to_community(embedding_manager, t, num_ponies) IN
    /\ pc = "aggregate"
    /\ population' = IF t = 1 THEN population ELSE responses
    /\ embedding_manager' = r.mgr
    /\ IF r.raised # ""
       THEN pc' = "raised" /\ result' = Raise(r.raised)
       ELSE pc' = "record" /\ UNCHANGED result
    /\ UNCHANGED <<swarm_vars, horde_client, metrics, call, t, responses,
                   embeddings, aggregation_data, gen_tasks, emb_tasks, i,
                   iteration_history, call_counts, faults, issued>>

\* The iteration record of the round (lines 181-185 and 251-255).
IterationRecord(round, pop, diversity) ==
    [iteration |-> round, population |-> pop, diversity |-> diversity]

\* The loop bound written as range(2, T): the last round is dropped.
LoopContinues_ShortRange(round, T) == round + 1 < T

\* for t in range(2, T + 1): after round `round` another round follows.
LoopContinues(round, T) == round < T

\* A variant whose records hold the population list itself: what the
\* earlier records show follows the population.
AppendRecord_SharedPopulation ==
    LET diversity == get_diversity_metric(embedding_manager, t) IN
    /\ pc = "record"
    /\ iteration_history' =
         Append([k \in 1..Len(iteration_history) |->
                    [iteration_history[k] EXCEPT !.population = population]],
                IterationRecord(t, population, diversity))
    /\ metrics' = IF t = 1 THEN metrics
                  ELSE [metrics EXCEPT !.avg_diversity = Append(@, diversity)]
    /\ pc' = IF LoopContinues(t, call.T) THEN "sample" ELSE "terminate"
    /\ UNCHANGED <<swarm_vars, horde_client, embedding_manager, call, t,
                   population, responses, embeddings, aggregation_data,
                   gen_tasks, emb_tasks, i, result, call_counts, faults, issued>>

\* Lines 181-185 and 247-258: the record of the round is appended with a
\* copy of the population; rounds from 2 on also append their diversity to
\* metrics['avg_diversity'].  The loop goes on while t < T.
AppendRecord ==
    LET diversity == get_diversity_metric(embedding_manager, t) IN
    /\ pc = "record"
    /\ iteration_history' =
         Append(iteration_history, IterationRecord(t, population, diversity))
    /\ metrics' = IF t = 1 THEN metrics
                  ELSE [metrics EXCEPT !.avg_diversity = Append(@, diversity)]
    /\ pc' = IF LoopContinues(t, call.T) THEN "sample" ELSE "terminate"
    /\ UNCHANGED <<swarm_vars, horde_client, embedding_manager, call, t,
                   population, responses, embeddings, aggregation_data,
                   gen_tasks, emb_tasks, i, result, call_counts, faults, issued>>

\* Aggregation data whose candidates drop the text of a failed slot.
AggregationData_ErrorsBlanked(pony_index, q, pop, subset_indices, K) ==
    [pony_index |-> pony_index,
     prompt |-> build_aggregation_prompt(
                    q, [a \in 1..Len(subset_indices) |->
                            IF IsErrorMarked(pop[subset_indices[a] + 1])
                            THEN NoText ELSE pop[subset_indices[a] + 1]], K),
     subset_indices |-> subset_indices]

\* Lines 196-209: the aggregation data of slot i for the drawn subset.
AggregationData(pony_index, q, pop, subset_indices, K) ==
    [pony_index |-> pony_index,
     prompt |-> build_aggregation_prompt(
                    q, [a \in 1..Len(subset_indices) |->
                            pop[subset_indices[a] + 1]], K),
     subset_indices |-> subset_indices]

\* The generation tasks of a round >= 2 (lines 212-215): slot by slot, the
\* pony of the slot answers the slot's prompt.
AggregationTasks(round, data) ==
    [j \in 1..Len(data) |-> NewGenTask(round, data[j].prompt)]

\* Start of a round t >= 2 (lines 191-215): every slot draws its own sample
\* of K slot indices, the prompts are built from the current population and
\* the generation tasks are created.
SampleSubsets ==
    /\ pc = "sample"
    /\ \E draw \in [1..num_ponies -> Samples(num_ponies, call.K)] :
         LET data == [j \in 1..num_ponies |->
                        AggregationData(j - 1, call.query, population,
                                        draw[j], call.K)]
         IN  /\ aggregation_data' = data
             /\ gen_tasks' = AggregationTasks(t + 1, data)
             /\ issued' = [issued EXCEPT
                              !.draws = @ \o [j \in 1..num_ponies |->
                                                SampleDraw(draw[j])]]
    /\ t' = t + 1
    /\ pc' = "gen"
    /\ UNCHANGED <<swarm_vars, horde_client, embedding_manager, metrics,
                   call, population, responses, embeddings, emb_tasks, i,
                   iteration_history, result, call_counts, faults>>

\* random.sample raises ValueError when the sample is larger than the
\* population (line 199); nothing handles it.
SampleRaises ==
    /\ pc = "sample"
    /\ Samples(num_ponies, call.K) = {}
    /\ t' = t + 1
    /\ pc' = "raised"
    /\ result' = Raise("ValueError")
    /\ UNCHANGED <<swarm_vars, horde_client, embedding_manager, metrics,
                   call, population, responses, embeddings,
                   aggregation_data, gen_tasks, emb_tasks, i,
                   iteration_history, call_counts, faults, issued>>

\* metrics['avg_diversity'] of the result (line 278): the mean of the list
\* kept in self.metrics, 0 when it is empty.
AvgDiversity(ds) ==
    IF ds = <<>> THEN [num |-> 0, den |-> 1]
    ELSE [num |-> FracSum(ds).num, den |-> FracSum(ds).den * Len(ds)]

\* A result that counts the generations of the rounds after the first.
FinalResult_LoopRoundsOnly(final_response, history, pop, ds, N, T) ==
    [kind |-> "return",
     keys |-> {"response", "is_crisis", "iterations", "final_population",
               "metrics"},
     response |-> final_response, is_crisis |-> FALSE,
     iterations |-> history, final_population |-> pop,
     metrics |-> [avg_diversity |-> AvgDiversity(ds),
                  total_generations |-> N * (T - 1)]]

\* A result whose response is taken from the round-1 population.
FinalResult_FirstRound(final_response, history, pop, ds, N, T) ==
    [kind |-> "return",
     keys |-> {"response", "is_crisis", "iterations", "final_population",
               "metrics"},
     response |-> history[1].population[1], is_crisis |-> FALSE,
     iterations |-> history, final_population |-> pop,
     metrics |-> [avg_diversity |-> AvgDiversity(ds),
                  total_generations |-> N * T]]

\* The result dict of a completed call (lines 271-281).
FinalResult(final_response, history, pop, ds, N, T) ==
    [kind |-> "return",
     keys |-> {"response", "is_crisis", "iterations", "final_population",
               "metrics"},
     response |-> final_response, is_crisis |-> FALSE,
     iterations |-> history, final_population |-> pop,
     metrics |-> [avg_diversity |-> AvgDiversity(ds),
                  total_generations |-> N * T]]

\* Lines 266-285: random.choice of the final population, and the return.
Terminate ==
    /\ pc = "terminate"
    /\ \E k \in 1..Len(population) :
         /\ result' = FinalResult(population[k], iteration_history,
                                  population, metrics.avg_diversity,
                                  num_ponies, call.T)
         /\ issued' = [issued EXCEPT !.draws = Append(@, ChoiceDraw(k - 1))]
    /\ pc' = "returned"
    /\ n_completed' = n_completed + 1
    /\ UNCHANGED <<swarm_vars, horde_client, embedding_manager, metrics,
                   call, t, population, responses, embeddings,
                   aggregation_data, gen_tasks, emb_tasks, i,
                   iteration_history, n_calls, faults>>

Next ==
    \/ AEnter
    \/ \E q \in Queries, us \in UserStates, Kin \in KArgs, Tin \in TArgs :
         Call(q, us, Kin, Tin)
    \/ \E j \in 1..MaxN : StartGen(j)
    \/ \E j \in 1..MaxN : CompleteGen(j)
    \/ \E j \in 1..MaxN : FailGen(j)
    \/ \E j \in 1..MaxN : PollGen(j)
    \/ GatherGen
    \/ GatherRaises
    \/ \E j \in 1..MaxN : StartEmb(j)
    \/ \E j \in 1..MaxN : CompleteEmb(j)
    \/ \E j \in 1..MaxN : FailEmb(j)
    \/ GatherEmb
    \/ StoreResponse
    \/ AggregateRound
    \/ AppendRecord
    \/ SampleSubsets
    \/ SampleRaises
    \/ Terminate

\* One call on a fresh swarm, with capabilities that may fail or hang.
Spec == Init /\ [][Next]_vars

\* Several calls on one swarm, with capabilities that always answer.
NextReuse ==
    \/ AEnter
    \/ \E q \in Queries, us \in UserStates, Kin \in KArgs, Tin \in TArgs :
         Call(q, us, Kin, Tin)
    \/ \E q \in Queries, us \in UserStates : CallAgain(q, us)
    \/ \E j \in 1..MaxN : StartGen(j)
    \/ \E j \in 1..MaxN : CompleteGen(j)
    \/ GatherGen
    \/ GatherRaises
    \/ \E j \in 1..MaxN : StartEmb(j)
    \/ \E j \in 1..MaxN : CompleteEmb(j)
    \/ GatherEmb
    \/ StoreResponse
    \/ AggregateRound
    \/ AppendRecord
    \/ SampleSubsets
    \/ SampleRaises
    \/ Terminate

SpecReuse == Init /\ [][NextReuse]_vars

\* A step of the call in progress: of a task of the gather or of the
\* orchestration coroutine.
Step ==
    \/ \E j \in 1..MaxN : StartGen(j) \/ StartEmb(j)
    \/ \E j \in 1..MaxN : CompleteGen(j) \/ FailGen(j) \/ PollGen(j)
    \/ \E j \in 1..MaxN : CompleteEmb(j) \/ FailEmb(j)
    \/ GatherGen \/ GatherRaises \/ GatherEmb
    \/ StoreResponse \/ AggregateRound \/ AppendRecord
    \/ SampleSubsets \/ SampleRaises \/ Terminate

\* ------------------------------------------ single_step_aggregation
\* PonySwarm.single_step_aggregation(query, K) up to its first await
\* (lines 358-372): K generation tasks, task i on pony i % N.  There is no
\* crisis check on this path.
SingleStepCall(q, K) ==
    /\ pc = "idle"
    /\ n_calls = 0
    /\ n_calls' = 1
    /\ call' = [query |-> q, user_state |-> "calm", Kin |-> K,
                Tin |-> NoneVal, K |-> K, T |-> 1]
    /\ gen_tasks' = [j \in 1..K |-> NewGenTask(1, QueryPrompt(q))]
    /\ pc' = "ss_gen"
    /\ t' = 1
    /\ UNCHANGED <<swarm_vars, horde_client, embedding_manager, metrics,
                   population, responses, embeddings, aggregation_data,
                   emb_tasks, i, iteration_history, result, n_completed,
                   faults, issued>>

\* A variant that gives every task to the first pony.
SinglePony_First(j) == 0

\* The pony that runs task j of the single-step call.
SinglePony(j) == (j - 1) % num_ponies

\* generate_response of task j starts (see StartGen).
SingleStart(j) ==
    /\ pc \in {"ss_gen", "ss_final", "raised"}
    /\ NextToStart(gen_tasks, j)
    /\ IF horde_client
       THEN /\ gen_tasks' = [gen_tasks EXCEPT ![j].st = "inflight"]
            /\ issued' = [issued EXCEPT !.generate = @ + 1]
       ELSE /\ gen_tasks' = [gen_tasks EXCEPT ![j].st = "raised",
                                              ![j].exc = "NameError"]
            /\ UNCHANGED issued
    /\ UNCHANGED <<swarm_vars, horde_client, embedding_manager, metrics, pc,
                   call, t, population, responses, embeddings,
                   aggregation_data, emb_tasks, i, iteration_history,
                   result, call_counts, faults>>

\* The backend answers task j.
SingleComplete(j) ==
    /\ pc \in {"ss_gen", "ss_final", "raised"}
    /\ j \in 1..Len(gen_tasks)
    /\ gen_tasks[j].st = "inflight"
    /\ gen_tasks' = [gen_tasks EXCEPT
                        ![j].st = "done",
                        ![j].result = GenReturn(SinglePony(j),
                                                gen_tasks[j].prompt)]
    /\ issued' = Overtaken(gen_tasks, j)
    /\ UNCHANGED <<swarm_vars, horde_client, embedding_manager, metrics, pc,
                   call, t, population, responses, embeddings,
                   aggregation_data, emb_tasks, i, iteration_history,
                   result, call_counts, faults>>

\* The gather of the K candidates returns (line 372); the first pony is
\* asked to aggregate them (lines 375-376).
SingleGather ==
    /\ pc = "ss_gen"
    /\ AllDone(gen_tasks)
    /\ responses' = GatherResults(gen_tasks)
    /\ gen_tasks' = <<NewGenTask(2, build_aggregation_prompt(
                                        call.query, GatherResults(gen_tasks),
                                        call.K))>>
    /\ pc' = "ss_final"
    /\ UNCHANGED <<swarm_vars, horde_client, embedding_manager, metrics,
                   call, t, population, embeddings, aggregation_data,
                   emb_tasks, i, iteration_history, result, call_counts,
                   faults, issued>>

\* The result dict of single_step_aggregation (lines 378-383).
SingleResult(final_response, candidates) ==
    [kind |-> "return",
     keys |-> {"response", "is_crisis", "candidates", "method"},
     response |-> final_response, is_crisis |-> FALSE,
     candidates |-> candidates, iterations |-> <<>>]

SingleReturn ==
    /\ pc = "ss_final"
    /\ AllDone(gen_tasks)
    /\ result' = SingleResult(gen_tasks[1].result, responses)
    /\ pc' = "returned"
    /\ UNCHANGED <<swarm_vars, horde_client, embedding_manager, metrics,
                   call, t, population, responses, embeddings,
                   aggregation_data, gen_tasks, emb_tasks, i,
                   iteration_history, call_counts, faults, issued>>

\* The exception of a task leaves single_step_aggregation.
SingleRaises ==
    /\ pc \in {"ss_gen", "ss_final"}
    /\ \E j \in 1..Len(gen_tasks) :
         /\ gen_tasks[j].st = "raised"
         /\ result' = Raise(gen_tasks[j].exc)
    /\ pc' = "raised"
    /\ UNCHANGED <<swarm_vars, horde_client, embedding_manager, metrics,
                   call, t, population, responses, embeddings,
                   aggregation_data, gen_tasks, emb_tasks, i,
                   iteration_history, call_counts, faults, issued>>

NextSingle ==
    \/ AEnter
    \/ \E q \in Queries, K \in 1..MaxK : SingleStepCall(q, K)
    \/ \E j \in 1..MaxK : SingleStart(j)
    \/ \E j \in 1..MaxK : SingleComplete(j)
    \/ SingleGather
    \/ SingleReturn
    \/ SingleRaises

\* One single_step_aggregation call on a fresh swarm.
SpecSingle == Init /\ [][NextSingle]_vars

\* ------------------------------------- direct calls of the selector
\* estimator.estimate_complexity on a query with the scans f.
EstimateComplexity(f) ==
    /\ pc = "idle"
    /\ param_selector # NoSelector
    /\ api_result' = [op |-> "estimate_complexity", features |-> f,
                      score |-> complexity_score(f)]
    /\ param_selector' = SelectorAfterSelect(param_selector)
    /\ UNCHANGED <<num_ponies, use_adaptive_params, context_buffer,
                   config_dicts, selectors, horde_client,
                   embedding_manager, metrics, pc, call, t, population,
                   responses, embeddings, aggregation_data, gen_tasks,
                   emb_tasks, i, iteration_history, result, call_counts,
                   faults, issued>>

\* What a select_parameters call on scans f returns, with the complexity
\* and the tier it logs.
Selection(sel, f) ==
    [op |-> "select_parameters", features |-> f,
     complexity |-> complexity_score(f),
     level |-> config_level(sel.thresholds, complexity_score(f)),
     params |-> select_by_score(sel, complexity_score(f))]

\* selector.select_parameters on a query with the scans f.
SelectScanned(f) ==
    /\ pc = "idle"
    /\ param_selector # NoSelector
    /\ api_result' = Selection(param_selector, f)
    /\ param_selector' = SelectorAfterSelect(param_selector)
    /\ UNCHANGED <<num_ponies, use_adaptive_params, context_buffer,
                   config_dicts, selectors, horde_client,
                   embedding_manager, metrics, pc, call, t, population,
                   responses, embeddings, aggregation_data, gen_tasks,
                   emb_tasks, i, iteration_history, result, call_counts,
                   faults, issued>>

NextEstimator ==
    \/ \E f \in FeatureInputs \cup {QueryFeatures(q) : q \in SelectorQueries} :
         EstimateComplexity(f)
    \/ \E f \in FeatureInputs \cup {QueryFeatures(q) : q \in SelectorQueries} :
         SelectScanned(f)

\* Calls of the estimator and of a selector with the default configs.
SpecEstimator == Init /\ [][NextEstimator]_vars

\* ---------------------------------------- direct calls of the manager
\* Callers of the manager pass vectors of their own: the first and the
\* last axis, the negative of the first and the zero vector, and a vector
\* of another length.
VecNeg(v) == [j \in 1..Dim |-> 0 - v[j]]
StoreVectors ==
    {Axis(1), VecNeg(Axis(1)), Axis(Dim), [j \in 1..Dim |-> 0]}
OddVectors == {<<1>>}
StorePonies == {0, 1, 2}
StoreRounds == {1, 2}
\* The (pony, round) pairs recorded: three ponies in round 1 and one in
\* round 2.
StoreRecords == {<<p, 1>> : p \in StorePonies} \cup {<<0, 2>>}

\* manager.add_pony_response(pony, round, response, vector).
RecordResponse(pony, round, vector) ==
    /\ pc = "idle"
    /\ LET r == add_pony_response(embedding_manager, pony, round,
                                  OkText(pony, NoPrompt), vector, <<>>) IN
       /\ embedding_manager' = r.mgr
       /\ api_result' = [op |-> "add_pony_response", raised |-> r.raised]
    /\ UNCHANGED <<swarm_config, horde_client, metrics, pc, call, t,
                   population, responses, embeddings, aggregation_data,
                   gen_tasks, emb_tasks, i, iteration_history, result,
                   call_counts, faults, issued>>

\* manager.get_diversity_metric(round).
GetDiversity(round) ==
    /\ pc = "idle"
    /\ LET vs == RoundVectors(embedding_manager, round) IN
       IF Len(vs) >= 2 /\ ~SameShape(vs)
       THEN api_result' = [op |-> "get_diversity_metric",
                           iteration |-> round, raised |-> "ValueError"]
       ELSE api_result' = [op |-> "get_diversity_metric",
                           iteration |-> round, raised |-> "",
                           diversity |-> get_diversity_metric(
                                             embedding_manager, round)]
    /\ UNCHANGED <<swarm_config, horde_client, embedding_manager,
                   metrics, pc, call, t, population, responses, embeddings,
                   aggregation_data, gen_tasks, emb_tasks, i,
                   iteration_history, result, call_counts, faults, issued>>

NextStore ==
    \/ \E rec \in StoreRecords, vector \in StoreVectors \cup OddVectors :
         RecordResponse(rec[1], rec[2], vector)
    \/ \E round \in StoreRounds : GetDiversity(round)

\* Calls of an embedding manager used on its own.
SpecStore == Init /\ [][NextStore]_vars

\* manager.aggregate_to_community(round, pony ids of ponies 0 .. n-1).
AggregateToCommunity(round, n) ==
    /\ pc = "idle"
    /\ LET r == aggregate_to_community(embedding_manager, round, n) IN
       /\ embedding_manager' = r.mgr
       /\ api_result' = [op |-> "aggregate_to_community",
                         iteration |-> round, ponies |-> n,
                         raised |-> r.raised]
    /\ UNCHANGED <<swarm_config, horde_client, metrics, pc, call, t,
                   population, responses, embeddings, aggregation_data,
                   gen_tasks, emb_tasks, i, iteration_history, result,
                   call_counts, faults, issued>>

NextCommunity ==
    \/ \E rec \in StoreRecords, vector \in {Axis(1), Axis(Dim)} :
         RecordResponse(rec[1], rec[2], vector)
    \/ \E round \in StoreRounds, n \in 1..Cardinality(StorePonies) :
         AggregateToCommunity(round, n)

\* Recording and aggregating on an embedding manager used on its own.
SpecCommunity == Init /\ [][NextCommunity]_vars

\* ------------------------------------------- the sentence count
\* Queries as lists of characters of two kinds: "w", a letter, and ".",
\* one of the terminators . ! ?
SplitTexts == UNION {[1..n -> {"w", "."}] : n \in 0..MaxSplitLen}

\* len(re.split(r'[.!?]+', query)): one piece more than there are runs of
\* terminators, the empty pieces at either end included.
sentence_count(text) ==
    1 + Cardinality({k \in 1..Len(text) :
                        /\ text[k] = "."
                        /\ (k = 1 \/ text[k - 1] # ".")})

\* The scans of such a query: no blank, so one word unless it is empty,
\* and no keyword.
SplitFeatures(text) ==
    [chars |-> Len(text), words |-> IF text = <<>> THEN 0 ELSE 1,
     sentences |-> sentence_count(text),
     math |-> 0, reasoning |-> 0, creative |-> 0, crisis |-> FALSE]

\* estimator.estimate_complexity on such a query.
EstimateText(text) ==
    /\ pc = "idle"
    /\ param_selector # NoSelector
    /\ api_result' = [op |-> "estimate_complexity", text |-> text,
                      features |-> SplitFeatures(text),
                      score |-> complexity_score(SplitFeatures(text))]
    /\ param_selector' = SelectorAfterSelect(param_selector)
    /\ UNCHANGED <<num_ponies, use_adaptive_params, context_buffer,
                   config_dicts, selectors, horde_client,
                   embedding_manager, metrics, pc, call, t, population,
                   responses, embeddings, aggregation_data, gen_tasks,
                   emb_tasks, i, iteration_history, result, call_counts,
                   faults, issued>>

NextSentences == \E text \in SplitTexts : EstimateText(text)

\* Estimates of queries that differ in their punctuation.
SpecSentences == Init /\ [][NextSentences]_vars

\* ------------------------------------------- several selectors
\* What a caller passes as configs: nothing, a mapping it has just built,
\* or a mapping that exists already (by reference).
ConfigArgs(dicts) ==
    {[kind |-> "none"], [kind |-> "new"]}
        \cup {[kind |-> "ref", ref |-> r] : r \in DOMAIN dicts}

\* AdaptiveParameterSelector.__init__ on the mappings that exist:
\* self.configs = configs or self.DEFAULT_CONFIGS.copy().  A mapping that
\* is passed is kept as it is, by reference; None or an empty mapping
\* gives a copy of the class attribute.
selector_init(dicts, arg) ==
    LET fresh == Cardinality(DOMAIN dicts) IN
    IF arg.kind = "new"
    THEN [dicts |-> Put(dicts, fresh, DEFAULT_CONFIGS),
          selector |-> [configs |-> fresh, thresholds |-> thresholds]]
    ELSE IF arg.kind = "none" \/ DOMAIN dicts[arg.ref] = {}
    THEN [dicts |-> Put(dicts, fresh, dicts[0]),
          selector |-> [configs |-> fresh, thresholds |-> thresholds]]
    ELSE [dicts |-> dicts,
          selector |-> [configs |-> arg.ref, thresholds |-> thresholds]]

\* The selector k as [configs, thresholds] with its mapping looked up.
SelectorOf(dicts, sels, k) ==
    [configs |-> dicts[sels[k].configs], thresholds |-> sels[k].thresholds]

\* AdaptiveParameterSelector(configs=arg).
ConstructSelector(arg) ==
    /\ pc = "idle"
    /\ Len(selectors) < MaxSelectors
    /\ LET r == selector_init(config_dicts, arg) IN
       /\ config_dicts' = r.dicts
       /\ selectors' = Append(selectors, r.selector)
    /\ api_result' = [op |-> "__init__", selector |-> Len(selectors) + 1]
    /\ UNCHANGED <<num_ponies, use_adaptive_params, param_selector,
                   context_buffer, horde_client, embedding_manager, metrics,
                   pc, call, t, population, responses, embeddings,
                   aggregation_data, gen_tasks, emb_tasks, i,
                   iteration_history, result, call_counts, faults, issued>>

\* selectors[k].update_config(level, params): the assignment goes to the
\* mapping the selector refers to.
UpdateSelector(k, level, params) ==
    /\ pc = "idle"
    /\ k \in 1..Len(selectors)
    /\ LET r == update_config(SelectorOf(config_dicts, selectors, k),
                              level, params) IN
       /\ config_dicts' = [config_dicts EXCEPT
                              ![selectors[k].configs] = r.sel.configs]
       /\ api_result' = [op |-> "update_config", selector |-> k,
                         level |-> level, params |-> params,
                         raised |-> r.raised]
    /\ UNCHANGED <<num_ponies, use_adaptive_params, param_selector,
                   context_buffer, selectors, horde_client,
                   embedding_manager, metrics, pc, call, t, population,
                   responses, embeddings, aggregation_data, gen_tasks,
                   emb_tasks, i, iteration_history, result, call_counts,
                   faults, issued>>

\* The levels and the params of the updates made on these selectors.
SharedLevels == {"simple", "complex"}
SharedParams == {[N |-> 3, K |-> 3, T |-> 2]}

NextShared ==
    \/ \E arg \in ConfigArgs(config_dicts) : ConstructSelector(arg)
    \/ \E k \in 1..MaxSelectors, level \in SharedLevels,
          params \in SharedParams : UpdateSelector(k, level, params)

\* Selectors built and tuned side by side.
SpecShared == Init /\ [][NextShared]_vars

\* ------------------------------------------- the embedding backends
\* Texts as lists of character codes: every text of up to MaxChars
\* characters over NUL and "a", and one text longer than the vector.
CharCodes == {0, 97}
EmbedTexts ==
    UNION {[1..n -> CharCodes] : n \in 0..MaxChars}
        \cup {[k \in 1..(EmbeddingDim + 1) |-> 97]}

\* np.linalg.norm(vec) > 0: the norm is positive exactly when some
\* component is not 0.
NormPositive(vec) == \E k \in 1..Len(vec) : vec[k] # 0

\* A returned vector is [direction, unit]: direction / norm when unit,
\* and direction itself when not.
\* HordeClient.generate_embedding: component i is ord(text[i]) / 255 for
\* the first 384 characters and 0 beyond the text; divided by the norm
\* when the norm is positive.
horde_embedding(text) ==
    LET vec == [k \in 1..EmbeddingDim |->
                   IF k <= Len(text) THEN text[k] ELSE 0]
    IN  [direction |-> vec, unit |-> NormPositive(vec)]

RECURSIVE CodeSumFrom(_, _)
CodeSumFrom(text, k) ==
    IF k > Len(text) \/ k > DigestLen THEN 0
    ELSE text[k] + CodeSumFrom(text, k + 1)
\* The sha256 digest of a text stands as 32 bytes that depend on the
\* text.
Digest(text) ==
    [k \in 1..DigestLen |->
        (CodeSumFrom(text, 1) + 7 * Len(text) + 31 * k) % 256]

\* MockHordeClient.generate_embedding: the digest tiled to 384 bytes,
\* scaled to [0, 1], plus normal noise seeded by the digest (which leaves
\* no component at exactly 0: the +1), divided by the norm when positive.
mock_embedding(text) ==
    LET vec == [k \in 1..EmbeddingDim |->
                   Digest(text)[((k - 1) % DigestLen) + 1] + 1]
    IN  [direction |-> vec, unit |-> NormPositive(vec)]

\* pony.generate_embedding(text) with the real or the mock client.
GenerateEmbedding(use_mock, text) ==
    /\ pc = "idle"
    /\ api_result' = [op |-> "generate_embedding", use_mock |-> use_mock,
                      text |-> text,
                      vector |-> IF use_mock THEN mock_embedding(text)
                                 ELSE horde_embedding(text)]
    /\ UNCHANGED <<swarm_config, horde_client, embedding_manager, metrics,
                   pc, call, t, population, responses, embeddings,
                   aggregation_data, gen_tasks, emb_tasks, i,
                   iteration_history, result, call_counts, faults, issued>>

NextEmbed ==
    \E use_mock \in BOOLEAN, text \in EmbedTexts :
        GenerateEmbedding(use_mock, text)

\* generate_embedding calls on both backends.
SpecEmbed == Init /\ [][NextEmbed]_vars

\* ------------------------------------------ the context of an agent
\* A variant of the trim that keeps the oldest entries.
TrimContext_KeepOldest(buffer) ==
    IF Len(buffer) > max_context_size
    THEN SubSeq(buffer, 1, max_context_size)
    ELSE buffer

\* The trim of add_to_context: buffer[-max_context_size:] once the buffer
\* is longer than max_context_size.
TrimContext(buffer) ==
    IF Len(buffer) > max_context_size
    THEN SubSeq(buffer, Len(buffer) - max_context_size + 1, Len(buffer))
    ELSE buffer

\* DesktopPonyAgent.add_to_context.
add_to_context(buffer, entry) == TrimContext(Append(buffer, entry))

\* The entries a caller adds are stamped 1, 2, 3, ... in the order of the
\* calls.
NextEntry == IF api_result.op = "add_to_context" THEN api_result.entry + 1 ELSE 1

\* pony.add_to_context(entry).
AddToContext ==
    /\ pc = "idle"
    /\ NextEntry <= MaxAdds
    /\ context_buffer' = add_to_context(context_buffer, NextEntry)
    /\ api_result' = [op |-> "add_to_context", entry |-> NextEntry]
    /\ UNCHANGED <<num_ponies, use_adaptive_params, param_selector,
                   config_dicts, selectors, horde_client,
                   embedding_manager, metrics, pc, call, t,
                   population, responses, embeddings, aggregation_data,
                   gen_tasks, emb_tasks, i, iteration_history, result,
                   call_counts, faults, issued>>

NextContext == AddToContext

\* add_to_context calls on one agent.
SpecContext == Init /\ [][NextContext]_vars

\* Level names and params passed to update_config: params with K > N,
\* params with K = N, and the default complex params.
Levels == {"simple", "medium", "complex", "extreme"}
ParamChoices ==
    {[N |-> 1, K |-> 2, T |-> 1],
     [N |-> 3, K |-> 3, T |-> 2],
     [N |-> 6, K |-> 3, T |-> 4]}

\* What the caller holds of the call before: the operation, its query
\* and what it returned.
LastCall(res) ==
    IF res.op = "select_parameters"
    THEN [op |-> res.op, query |-> res.query, returned |-> res.params]
    ELSE IF res.op = "estimate_complexity"
    THEN [op |-> res.op, query |-> res.query, returned |-> res.score]
    ELSE [op |-> "none"]

\* selector.estimator.estimate_complexity(q).
EstimateQuery(q) ==
    /\ pc = "idle"
    /\ param_selector # NoSelector
    /\ api_result' = [op |-> "estimate_complexity", query |-> q,
                      score |-> estimate_complexity(q),
                      prev |-> LastCall(api_result)]
    /\ param_selector' = SelectorAfterSelect(param_selector)
    /\ UNCHANGED <<num_ponies, use_adaptive_params, context_buffer,
                   config_dicts, selectors, horde_client,
                   embedding_manager, metrics, pc, call, t, population,
                   responses, embeddings, aggregation_data, gen_tasks,
                   emb_tasks, i, iteration_history, result, call_counts,
                   faults, issued>>

\* selector.select_parameters(q).
SelectQuery(q) ==
    /\ pc = "idle"
    /\ param_selector # NoSelector
    /\ api_result' = [op |-> "select_parameters", query |-> q,
                      complexity |-> estimate_complexity(q),
                      level |-> config_level(param_selector.thresholds,
                                             estimate_complexity(q)),
                      params |-> select_parameters(param_selector, q),
                      prev |-> LastCall(api_result)]
    /\ param_selector' = SelectorAfterSelect(param_selector)
    /\ UNCHANGED <<num_ponies, use_adaptive_params, context_buffer,
                   config_dicts, selectors, horde_client,
                   embedding_manager, metrics, pc, call, t, population,
                   responses, embeddings, aggregation_data, gen_tasks,
                   emb_tasks, i, iteration_history, result, call_counts,
                   faults, issued>>

\* selector.update_config(level, params).
UpdateConfig(level, params) ==
    /\ pc = "idle"
    /\ param_selector # NoSelector
    /\ LET r == update_config(param_selector, level, params) IN
       /\ param_selector' = r.sel
       /\ api_result' = [op |-> "update_config", level |-> level,
                         params |-> params, raised |-> r.raised]
    /\ UNCHANGED <<num_ponies, use_adaptive_params, context_buffer,
                   config_dicts, selectors, horde_client,
                   embedding_manager, metrics, pc, call, t, population,
                   responses, embeddings, aggregation_data, gen_tasks,
                   emb_tasks, i, iteration_history, result, call_counts,
                   faults, issued>>

NextSelector ==
    \/ \E q \in SelectorQueries : EstimateQuery(q)
    \/ \E q \in SelectorQueries : SelectQuery(q)
    \/ \E level \in Levels, params \in ParamChoices :
         UpdateConfig(level, params)

\* Calls of a selector that is tuned while in use.
SpecSelector == Init /\ [][NextSelector]_vars

\* The event loop keeps running: while a task is ready, or a backend
\* request or the sleep between two polls is pending, some step of the
\* call happens (a request ends with an answer, an error, or not done
\* yet).  Nothing obliges a caller to call.
Fairness == WF_vars(Step)

SpecLive == Spec /\ Fairness


\* ================================================================ claims
\* The call in progress (or the last one) was given a valid K and T:
\* 1 <= K <= N and T >= 1, both passed by the caller.
ValidArgs ==
    /\ n_calls >= 1
    /\ call.Kin \in 1..num_ponies
    /\ call.Tin >= 1

Returned == pc = "returned" /\ result.kind = "return"
ReturnedNormally == Returned /\ ~result.is_crisis

\* C1: whenever a call with valid (N, K, T) on a fresh swarm returns without
\* a crisis alert, the result holds exactly T iteration records, numbered
\* 1 .. T in this order, each with a population of exactly N entries.
C1_ExactlyTRecords ==
    (ReturnedNormally /\ ValidArgs) =>
        /\ Len(result.iterations) = call.Tin
        /\ \A r \in 1..Len(result.iterations) :
             /\ result.iterations[r].iteration = r
             /\ Len(result.iterations[r].population) = num_ponies

\* A call with N = 2, K = 2, T = 2 has returned its two records.
C1_Witness ==
    /\ ReturnedNormally /\ ValidArgs
    /\ num_ponies = 2 /\ call.Kin = 2 /\ call.Tin = 2
    /\ Len(result.iterations) = 2

\* Some pony's check_crisis_indicators alerts on the arguments of the call.
SomePonyAlerts ==
    \E p \in 0..(num_ponies - 1) :
        check_crisis_indicators(p, call.query, call.user_state) # NoAlert

\* C2: when any pony's check_crisis_indicators alerts on the query, the
\* call has returned is_crisis = TRUE with no iterations and an alert as the
\* response, and it issued no generate call, no embed call and no store
\* write.
C2_CrisisShortCircuit ==
    (n_calls >= 1 /\ SomePonyAlerts) =>
        /\ Returned
        /\ result.is_crisis
        /\ result.iterations = <<>>
        /\ \E p \in 0..(num_ponies - 1) :
             result.response =
                 check_crisis_indicators(p, call.query, call.user_state)
        /\ issued = NoIssued
        /\ gen_tasks = <<>> /\ emb_tasks = <<>>

\* A call returned the wellbeing alert of a stressed user in recovery.
C2_Witness ==
    /\ Returned /\ result.is_crisis
    /\ call.user_state = "stressed"
    /\ result.response.kind = "WELLBEING"

\* C3 (as stated): once a call has completed on a swarm, a further call
\* with valid K and T and no crisis alert on the same swarm does not raise:
\* it runs to its own result.  The store keeps the ids of the first call,
\* and the second call writes the same ids.
C3_SecondCallCompletes ==
    (n_completed >= 1 /\ n_calls >= 2 /\ ValidArgs /\ ~SomePonyAlerts) =>
        pc # "raised"

\* The fine and community levels of the store.
FineLevel ==
    IF "fine" \in DOMAIN embedding_manager.levels
    THEN embedding_manager.levels["fine"] ELSE EmptyDict
CommunityLevel ==
    IF "community" \in DOMAIN embedding_manager.levels
    THEN embedding_manager.levels["community"] ELSE EmptyDict

\* Round r is committed: its N fine records are stored, its community
\* entry is aggregated and its record is in the history.
Committed(r) ==
    /\ \A p \in 0..(num_ponies - 1) : fine_id(p, r) \in DOMAIN FineLevel
    /\ r \in DOMAIN CommunityLevel
    /\ Len(iteration_history) >= r
    /\ iteration_history[r].iteration = r
    /\ Len(iteration_history[r].population) = num_ponies

\* C4: rounds are strictly sequential.  A generation call of round t+1 is
\* issued only when round t is committed: all N fine records stored, the
\* community entry aggregated, the iteration record appended.
C4_RoundsSequential ==
    \A j \in 1..Len(gen_tasks) :
        (gen_tasks[j].round >= 2 /\ gen_tasks[j].st # "created") =>
            Committed(gen_tasks[j].round - 1)

\* A generation call of round 2 is in flight in a swarm of two ponies.
C4_Witness ==
    /\ num_ponies = 2
    /\ pc = "gen" /\ t = 2
    /\ \E j \in 1..Len(gen_tasks) :
         gen_tasks[j].round = 2 /\ gen_tasks[j].st = "inflight"
    /\ Committed(1)

\* C5: in every round, an embedding call of the round is issued only when
\* all N generation calls of the round are over; the embedding tasks left
\* from an earlier round are all over.
C5_EmbedAfterAllGenerated ==
    \A j \in 1..Len(emb_tasks) :
        /\ emb_tasks[j].round <= t
        /\ (emb_tasks[j].round < t) => emb_tasks[j].st = "done"
        /\ (emb_tasks[j].round = t /\ emb_tasks[j].st # "created") =>
              /\ Len(gen_tasks) = num_ponies
              /\ \A k \in 1..Len(gen_tasks) :
                    /\ gen_tasks[k].round = t
                    /\ gen_tasks[k].st = "done"

\* An embedding call of round 2 is in flight after generation calls that
\* ended out of slot order.
C5_Witness ==
    /\ num_ponies = 2 /\ t = 2 /\ pc = "emb"
    /\ issued.overtaken
    /\ \E j \in 1..Len(emb_tasks) :
         emb_tasks[j].round = 2 /\ emb_tasks[j].st = "inflight"

\* The prompt slot k of round r answers, given the recorded history: the
\* query in round 1, later the aggregation prompt over the candidates that
\* the slot drew from the population of round r - 1.
PromptOf(r, k) ==
    IF r = 1 THEN QueryPrompt(call.query)
    ELSE LET from == FineLevel[fine_id(k - 1, r)].metadata.aggregated_from
         IN  build_aggregation_prompt(
                 call.query,
                 [a \in 1..Len(from) |->
                     iteration_history[r - 1].population[from[a] + 1]],
                 call.K)

\* C6: whatever the completion order of the concurrent calls, entry i of
\* the population of round r is the response of pony i (to the prompt of
\* slot i, or its error string), and the store holds its embedding under
\* the id of pony i and round r; a returned history is this history.
C6_SlotOrder ==
    /\ \A r \in 1..Len(iteration_history) :
         /\ Len(iteration_history[r].population) = num_ponies
         /\ \A k \in 1..num_ponies :
              LET x == iteration_history[r].population[k] IN
              /\ x.by = k - 1
              /\ fine_id(k - 1, r) \in DOMAIN FineLevel
              /\ FineLevel[fine_id(k - 1, r)].vector = EmbedVector(x)
              /\ embedding_manager.history[r][k] =
                    [pony_id |-> k - 1, embedding_id |-> fine_id(k - 1, r),
                     response |-> x]
              /\ FineLevel[fine_id(k - 1, r)].metadata.pony_id = k - 1
              /\ IF IsErrorMarked(x)
                 THEN x \in {GenRecover(k - 1, "Horde request failed"),
                             GenRecover(k - 1, "Generation timeout")}
                 ELSE x = GenReturn(k - 1, PromptOf(r, k))
    /\ ReturnedNormally => result.iterations = iteration_history

\* A call of two ponies returned two records after calls that ended out of
\* slot order.
C6_Witness ==
    /\ ReturnedNormally
    /\ num_ponies = 2
    /\ issued.overtaken
    /\ Len(result.iterations) = 2

\* Slot j is the next one of the gather to take its first step.
FirstCreated(tasks, j) ==
    /\ j \in 1..Len(tasks)
    /\ tasks[j].st = "created"
    /\ \A k \in 1..(j - 1) : tasks[k].st # "created"

C8_GenerateNeverRaises ==
    \A j \in 1..Len(gen_tasks) : gen_tasks[j].st # "raised"

\* C9 (as stated): a failure of an embedding capability call does not
\* propagate into recursive_self_aggregation: no embedding task ends with
\* an exception and the call does not raise it.
C9_EmbeddingFailureRecovered ==
    /\ \A j \in 1..Len(emb_tasks) : emb_tasks[j].st # "raised"
    /\ ~(pc = "raised" /\ result.exc = "EmbeddingError")

\* The string of a slot whose polling loop ran out.
TimeoutText(j) == GenRecover(j - 1, "Generation timeout")

\* C10: a generation call whose backend request never gets done is ended
\* by its own polling bound with an error-marked string in its slot, and
\* only a slot that used up its own passes holds that string; the calls
\* in flight eventually all end, and a call of recursive_self_aggregation
\* with valid arguments on an entered swarm eventually returns its result
\* unless an embedding call raised.
C10_TimeoutDegradesSlot ==
    /\ [](\A j \in 1..Len(gen_tasks) :
            /\ gen_tasks[j].attempts <= max_attempts
            /\ (gen_tasks[j].attempts = max_attempts) =>
                  /\ gen_tasks[j].st = "done"
                  /\ gen_tasks[j].result = TimeoutText(j)
                  /\ IsErrorMarked(gen_tasks[j].result)
            /\ (gen_tasks[j].result = TimeoutText(j)) =>
                  gen_tasks[j].attempts = max_attempts)
    /\ (\E j \in 1..Len(gen_tasks) : gen_tasks[j].st = "inflight")
            ~> (\A j \in 1..Len(gen_tasks) : gen_tasks[j].st = "done")
    /\ (pc = "gen" /\ ValidArgs /\ horde_client)
            ~> (ReturnedNormally
                \/ (pc = "raised" /\ result.exc = "EmbeddingError"))

\* A call of two ponies returned a final population in which one slot
\* holds the timeout string and the other a generated response.
C10_Witness ==
    /\ ReturnedNormally
    /\ num_ponies = 2
    /\ \E j, k \in 1..2 :
         /\ j # k
         /\ result.final_population[j] = TimeoutText(j)
         /\ ~IsErrorMarked(result.final_population[k])

\* The candidates slot k of the current round (>= 2) drew from the
\* population of the round before.
DrawnCandidates(k) ==
    LET from == aggregation_data[k].subset_indices IN
    [a \in 1..Len(from) |-> iteration_history[t - 1].population[from[a] + 1]]

\* C11: the error string of a failed generation is the slot's population
\* entry of the round, unmodified; the prompts of the next round take the
\* sampled entries as they are, error strings included; and no generation
\* is issued again: at most one call per slot and round.
C11_ErrorSlotCarried ==
    /\ (Len(iteration_history) = t /\ t >= 1) =>
          \A k \in 1..Len(gen_tasks) :
              (gen_tasks[k].round = t /\ gen_tasks[k].st = "done") =>
                  iteration_history[t].population[k] = gen_tasks[k].result
    /\ (pc = "gen" /\ t >= 2) =>
          \A k \in 1..Len(gen_tasks) :
              gen_tasks[k].prompt =
                  build_aggregation_prompt(call.query, DrawnCandidates(k),
                                           call.K)
    /\ issued.generate <= num_ponies * t
    /\ ReturnedNormally => issued.generate = num_ponies * call.T

\* A generation call of round 2 answers a prompt that lists the error
\* string of a slot that failed in round 1.
C11_Witness ==
    /\ pc = "gen" /\ t = 2 /\ num_ponies = 2
    /\ \E k \in 1..Len(gen_tasks) :
         /\ gen_tasks[k].st = "inflight"
         /\ \E a \in 1..Len(gen_tasks[k].prompt.candidates) :
              /\ IsErrorMarked(gen_tasks[k].prompt.candidates[a])
              /\ gen_tasks[k].prompt.candidates[a]
                    \in {iteration_history[1].population[p] : p \in 1..2}

\* The call did no generation work: no task was created and no generate
\* call, embed call or store write happened.
NoGenerationWork ==
    /\ gen_tasks = <<>> /\ emb_tasks = <<>>
    /\ issued.generate = 0 /\ issued.embed = 0 /\ issued.record = 0

\* C12 (as stated): a call whose K is larger than N does no generation
\* work; it is rejected before round 1.
C12_OversizedKRejectedFirst ==
    (n_calls >= 1 /\ call.Kin # NoneVal /\ call.Kin > num_ponies) =>
        /\ NoGenerationWork
        /\ ~ReturnedNormally

\* C13 (as stated): a call given K = 0 or T = 0 does no generation work,
\* runs with no other value in place of the one given, and a call that
\* returns records returns as many as the T it was given.
C13_InvalidNeverReplaced ==
    /\ (n_calls >= 1 /\ ~SomePonyAlerts
           /\ (call.Kin = 0 \/ call.Tin = 0)) =>
          /\ NoGenerationWork
          /\ ~ReturnedNormally
    /\ (n_calls >= 1 /\ call.Kin # NoneVal) => call.K = call.Kin
    /\ (n_calls >= 1 /\ call.Tin # NoneVal) => call.T = call.Tin
    /\ (ReturnedNormally /\ call.Tin # NoneVal) =>
          Len(result.iterations) = call.Tin

\* C14 (as stated): with K and T omitted on a swarm with adaptive
\* parameters, the resolved K is within 1 .. N, and sub-sampling does not
\* fail.
C14_ResolvedKWithinN ==
    (n_calls >= 1 /\ use_adaptive_params
       /\ call.Kin = NoneVal /\ call.Tin = NoneVal) =>
        /\ call.K \in 1..num_ponies
        /\ ~(pc = "raised" /\ result.exc = "ValueError")

\* C15: recording a vector for an (agent, round) pair that is recorded
\* already raises and leaves the fine level, the community level and the
\* history as they were, whatever the vector and the response; and no
\* step replaces or removes a stored fine vector.
C15_DuplicateRecordFails ==
    /\ [](\A id \in DOMAIN FineLevel :
            \A k \in 1..Dim : \A response \in {NoText, ErrText(id[1], "x")} :
                LET r == add_pony_response(embedding_manager, id[1], id[2],
                                           response, Axis(k), <<>>)
                IN  /\ r.raised = "ValueError"
                    /\ r.mgr = embedding_manager)
    /\ [][\A id \in DOMAIN FineLevel :
            /\ id \in DOMAIN FineLevel'
            /\ FineLevel'[id] = FineLevel[id]]_vars

\* A second call tried to record pony 0's round-1 vector again, with
\* another response than the stored one, and raised.
C15_Witness ==
    /\ n_calls = 2 /\ pc = "raised" /\ result.exc = "ValueError"
    /\ t = 1 /\ i = 0
    /\ fine_id(0, 1) \in DOMAIN FineLevel
    /\ FineLevel[fine_id(0, 1)].metadata.response_text # responses[1]

\* The fine vectors of round r, in pony order.
FineVectors(r) ==
    [k \in 1..num_ponies |-> FineLevel[fine_id(k - 1, r)].vector]

RECURSIVE ComponentSum(_, _, _)
\* Component j of the first n vectors of vs, added up.
ComponentSum(vs, j, n) ==
    IF n = 0 THEN 0 ELSE vs[n][j] + ComponentSum(vs, j, n - 1)

\* C16: from the aggregation of a round on, in every state of the call,
\* the community entry of the round is the elementwise sum of exactly the
\* N fine vectors of the round.
C16_CommunityIsSum ==
    \A r \in DOMAIN CommunityLevel :
        /\ \A p \in 0..(num_ponies - 1) : fine_id(p, r) \in DOMAIN FineLevel
        /\ CommunityLevel[r].metadata.children = FineIds(num_ponies, r)
        /\ \A j \in 1..Dim :
             CommunityLevel[r].vector[j] =
                 ComponentSum(FineVectors(r), j, num_ponies)

\* A call of two ponies returned with the community entries of rounds 1
\* and 2, the second one the sum of two different fine vectors.
C16_Witness ==
    /\ ReturnedNormally /\ num_ponies = 2
    /\ {1, 2} \subseteq DOMAIN CommunityLevel
    /\ FineVectors(2)[1] # FineVectors(2)[2]
    /\ CommunityLevel[2].vector = VecAdd(FineVectors(2)[1], FineVectors(2)[2])
    /\ CommunityLevel[2].vector \notin {FineVectors(2)[1], FineVectors(2)[2]}

\* C17: in every round t >= 2 every slot has its own subset of exactly K
\* pairwise distinct slot indices within 0 .. N-1; the slot's prompt is
\* built from the entries of the round t-1 population at these indices;
\* and the metadata stored with the slot's vector lists this subset.
C17_SubsetsOfPreviousRound ==
    /\ (pc = "gen" /\ t >= 2) => Len(aggregation_data) = num_ponies
    /\ \A k \in 1..Len(aggregation_data) :
         LET s == aggregation_data[k].subset_indices IN
         /\ t >= 2
         /\ aggregation_data[k].pony_index = k - 1
         /\ Len(s) = call.K
         /\ \A a \in 1..Len(s) : s[a] \in 0..(num_ponies - 1)
         /\ \A a, b \in 1..Len(s) : a # b => s[a] # s[b]
         /\ aggregation_data[k].prompt =
               build_aggregation_prompt(
                   call.query,
                   [a \in 1..Len(s) |->
                       iteration_history[t - 1].population[s[a] + 1]],
                   call.K)
         /\ gen_tasks[k].round = t
         /\ gen_tasks[k].prompt = aggregation_data[k].prompt
         /\ fine_id(k - 1, t) \in DOMAIN FineLevel =>
               FineLevel[fine_id(k - 1, t)].metadata.aggregated_from = s

\* Round 2 of a call with N = 2 and K = 1 is stored: the two slots drew
\* different single indices, recorded with their vectors.
C17_Witness ==
    /\ num_ponies = 2 /\ call.K = 1 /\ t = 2
    /\ \A p \in 0..1 : fine_id(p, 2) \in DOMAIN FineLevel
    /\ FineLevel[fine_id(0, 2)].metadata.aggregated_from = <<1>>
    /\ FineLevel[fine_id(1, 2)].metadata.aggregated_from = <<0>>

\* C18: for every T >= 1 the response of a non-crisis result is an entry
\* of the population of the last iteration record, the round-T population.
C18_ResponseFromFinalPopulation ==
    ReturnedNormally =>
        LET last == result.iterations[Len(result.iterations)] IN
        /\ Len(result.iterations) = call.T
        /\ last.iteration = call.T
        /\ last.population = result.final_population
        /\ \E k \in 1..Len(last.population) :
             result.response = last.population[k]

\* A call with T = 1 and two ponies returned the entry of the second slot.
C18_Witness ==
    /\ ReturnedNormally /\ ValidArgs
    /\ call.Tin = 1 /\ num_ponies = 2
    /\ result.response = result.iterations[1].population[2]
    /\ result.response # result.iterations[1].population[1]

MeanDiversity(records) ==
    LET total == FracSum([r \in 1..Len(records) |-> records[r].diversity])
    IN  [num |-> total.num, den |-> total.den * Len(records)]

C21_TotalGenerations ==
    ReturnedNormally =>
        /\ result.metrics.total_generations = num_ponies * call.T
        /\ result.metrics.total_generations = issued.generate
        /\ result.metrics.total_generations =
              num_ponies * Len(result.iterations)

\* A call with N = 2 and T = 2 returned after four generation calls.
C21_Witness ==
    /\ ReturnedNormally /\ ValidArgs
    /\ num_ponies = 2 /\ call.Tin = 2
    /\ issued.generate = 4
    /\ result.metrics.total_generations = 4

\* C22: the prompt of a call with K = 1 holds the query and the single
\* candidate and no "Solution" block, so no "Solution 2" marker; the prompt
\* of a call with K > 1 holds the query and exactly K blocks labelled
\* Solution 1 .. Solution K, block a with candidate a.
C22_PromptBlocks ==
    (pc = "ss_final") =>
        LET p == gen_tasks[1].prompt IN
        /\ p.query = call.query
        /\ call.K = 1 =>
              /\ p.candidates = <<responses[1]>>
              /\ \A a \in 1..Len(SolutionBlocks(p)) :
                    SolutionBlocks(p)[a].label # 2
              /\ SolutionBlocks(p) = <<>>
        /\ call.K > 1 =>
              /\ Len(SolutionBlocks(p)) = call.K
              /\ \A a \in 1..call.K :
                    /\ SolutionBlocks(p)[a].label = a
                    /\ SolutionBlocks(p)[a].text = responses[a]

\* The aggregation prompt of a call with K = 3 lists three blocks.
C22_Witness ==
    /\ pc = "ss_final" /\ call.K = 3
    /\ Len(SolutionBlocks(gen_tasks[1].prompt)) = 3
    /\ SolutionBlocks(gen_tasks[1].prompt)[3].label = 3

\* C23 (as stated): no generation capability call is issued for a text on
\* which check_crisis_indicators alerts.
C23_SafetyCheckBeforeGeneration ==
    (issued.generate > 0) => ~SomePonyAlerts

\* ---------------------------------------------------------------- C26
TierRank(level) ==
    CASE level = "simple" -> 1 [] level = "medium" -> 2 [] OTHER -> 3

DefaultTier(s) ==
    IF s < 20 THEN [level |-> "simple", params |-> [N |-> 2, K |-> 1, T |-> 2]]
    ELSE IF s < 60
         THEN [level |-> "medium", params |-> [N |-> 4, K |-> 2, T |-> 3]]
         ELSE [level |-> "complex", params |-> [N |-> 6, K |-> 3, T |-> 4]]

\* C26: with the default thresholds and configs the selector picks (2,1,2)
\* for a score below 20, (4,2,3) for a score from 20 up to 59 and (6,3,4)
\* from 60 on, for every score in 0..100 and for every call made; the tier
\* never falls when the score rises.
C26_TierByScore ==
    /\ \A s \in 0..100 :
         /\ config_level(NewSelector.thresholds, s) = DefaultTier(s).level
         /\ select_by_score(NewSelector, s) = DefaultTier(s).params
    /\ \A s \in 0..99 :
         TierRank(config_level(NewSelector.thresholds, s))
             <= TierRank(config_level(NewSelector.thresholds, s + 1))
    /\ api_result.op = "select_parameters" =>
         /\ api_result.level = DefaultTier(api_result.complexity).level
         /\ api_result.params = DefaultTier(api_result.complexity).params

C26_Witness ==
    /\ api_result.op = "select_parameters"
    /\ api_result.complexity = 60
    /\ api_result.level = "complex"
    /\ api_result.params = [N |-> 6, K |-> 3, T |-> 4]

\* ---------------------------------------------------------------- C27
CharBucket(n) ==
    IF n < 50 THEN 5 ELSE IF n < 150 THEN 20 ELSE IF n < 300 THEN 40 ELSE 60
WordBucket(n) ==
    IF n < 10 THEN 0 ELSE IF n < 25 THEN 10 ELSE IF n < 50 THEN 20 ELSE 30
BucketSum(f) ==
    CharBucket(f.chars) + WordBucket(f.words)
    + (IF f.sentences > 3 THEN 15 ELSE 0)
    + (IF f.math >= 1 THEN 0 - 10 ELSE 0)
    + (IF f.reasoning > 2 THEN 15 ELSE IF f.reasoning >= 1 THEN 5 ELSE 0)
    + (IF f.creative > 2 THEN 30 ELSE IF f.creative >= 1 THEN 15 ELSE 0)

\* C27: the estimate of every query is the sum of its character bucket,
\* word bucket, sentence bonus, math penalty, reasoning bonus and creative
\* bonus, clamped to 0..100, and so lies in 0..100.
C27_ScoreIsClampedBucketSum ==
    api_result.op = "estimate_complexity" =>
        /\ api_result.score \in 0..100
        /\ BucketSum(api_result.features) < 0 => api_result.score = 0
        /\ BucketSum(api_result.features) > 100 => api_result.score = 100
        /\ BucketSum(api_result.features) \in 0..100 =>
               api_result.score = BucketSum(api_result.features)

C27_Witness ==
    /\ api_result.op = "estimate_complexity"
    /\ BucketSum(api_result.features) > 100
    /\ api_result.score = 100

\* ---------------------------------------------------------------- C28
\* C28: "Calculate 5 + 3" scores below 20 and is selected into the simple
\* tier; the creative-story query scores at least 60 and is selected into
\* the complex tier.
C28_NamedQueries ==
    api_result.op = "select_parameters" =>
        /\ api_result.features = QueryFeatures(QCalc) =>
               api_result.complexity < 20 /\ api_result.level = "simple"
        /\ api_result.features = QueryFeatures(QCreative) =>
               api_result.complexity >= 60 /\ api_result.level = "complex"

\* ---------------------------------------------------------------- C24
\* C24: update_config with K > N is rejected and leaves the tier as it
\* was, so every tier configuration the selector holds has K <= N.
C24_UpdateKeepsKWithinN ==
    /\ param_selector # NoSelector =>
         \A level \in DOMAIN param_selector.configs :
             param_selector.configs[level].K
                 <= param_selector.configs[level].N
    /\ (api_result.op = "update_config"
            /\ api_result.params.K > api_result.params.N) =>
         api_result.raised # ""

\* ---------------------------------------------------------------- C25
\* C25: an update_config on a known tier makes select_parameters return
\* the new params for every query scored into that tier and leaves what it
\* returns for the other queries; on an unknown tier it raises and leaves
\* the selector as it was; select_parameters returns the current params
\* of the tier of its query.
C25_UpdateFrame ==
    /\ [](api_result.op = "select_parameters" =>
             api_result.params = param_selector.configs[api_result.level])
    /\ [][api_result'.op = "update_config" =>
             IF api_result'.level \in DOMAIN param_selector.configs
             THEN /\ api_result'.raised = ""
                  /\ param_selector'.thresholds = param_selector.thresholds
                  /\ DOMAIN param_selector'.configs
                         = DOMAIN param_selector.configs
                  /\ \A l \in DOMAIN param_selector.configs :
                         param_selector'.configs[l]
                             = IF l = api_result'.level
                               THEN api_result'.params
                               ELSE param_selector.configs[l]
                  /\ \A q \in SelectorQueries :
                         select_parameters(param_selector', q)
                             = IF config_level(param_selector.thresholds,
                                               estimate_complexity(q))
                                    = api_result'.level
                               THEN api_result'.params
                               ELSE select_parameters(param_selector, q)
             ELSE /\ api_result'.raised = "ValueError"
                  /\ param_selector' = param_selector]_vars

\* A query of the medium tier is answered with params set by an earlier
\* update while the simple tier still has its default.
C25_Witness ==
    /\ api_result.op = "select_parameters"
    /\ api_result.level = "medium"
    /\ api_result.params = [N |-> 3, K |-> 3, T |-> 2]
    /\ param_selector.configs["simple"] = DEFAULT_CONFIGS["simple"]
    /\ param_selector.configs["medium"] # DEFAULT_CONFIGS["medium"]

C30_DiversityInUnitInterval ==
    (api_result.op = "get_diversity_metric" /\ api_result.raised = "") =>
        /\ FracLeq([num |-> 0, den |-> 1], api_result.diversity)
        /\ FracLeq(api_result.diversity, [num |-> 1, den |-> 1])

\* ---------------------------------------------------------------- C31
\* The fine ids of a round, and the unordered pairs of them.
RoundIds(r) ==
    IF "fine" \notin DOMAIN embedding_manager.levels THEN {}
    ELSE {id \in DOMAIN embedding_manager.levels["fine"] : id[2] = r}
IdPairs(r) == {pr \in SUBSET RoundIds(r) : Cardinality(pr) = 2}
PairDistance(pr) ==
    LET a == CHOOSE x \in pr : TRUE
        b == CHOOSE x \in pr : x # a
    IN  1 - Dot(embedding_manager.levels["fine"][a].vector,
                embedding_manager.levels["fine"][b].vector)
RECURSIVE SumOfPairs(_)
SumOfPairs(prs) ==
    IF prs = {} THEN 0
    ELSE LET pr == CHOOSE x \in prs : TRUE
         IN  PairDistance(pr) + SumOfPairs(prs \ {pr})

\* C31: get_diversity_metric(r) is 0 when round r has fewer than two
\* recorded vectors, and otherwise the mean of 1 - cosine similarity over
\* the n(n-1)/2 unordered pairs of the fine vectors of round r alone.
C31_MeanPairwiseDistance ==
    (api_result.op = "get_diversity_metric" /\ api_result.raised = "") =>
        LET r == api_result.iteration
            n == Cardinality(RoundIds(r))
        IN  /\ n < 2 => api_result.diversity = [num |-> 0, den |-> 1]
            /\ n >= 2 =>
                  /\ Cardinality(IdPairs(r)) = (n * (n - 1)) \div 2
                  /\ api_result.diversity.den = Cardinality(IdPairs(r))
                  /\ api_result.diversity.num = SumOfPairs(IdPairs(r))

\* Three vectors in round 1, the first and the last of them opposed, and
\* a vector in round 2.
C31_Witness ==
    /\ api_result.op = "get_diversity_metric"
    /\ api_result.raised = ""
    /\ api_result.iteration = 1
    /\ Cardinality(RoundIds(1)) = 3
    /\ Cardinality(RoundIds(2)) = 1
    /\ api_result.diversity.den = 3
    /\ api_result.diversity.num = 4

\* ---------------------------------------------------------------- C32
\* C32: all fine vectors of the store have one dimension; a vector of
\* another dimension is rejected and the store stays as it was.
C32_OneDimension ==
    "fine" \in DOMAIN embedding_manager.levels =>
        \A a, b \in DOMAIN embedding_manager.levels["fine"] :
            Len(embedding_manager.levels["fine"][a].vector)
                = Len(embedding_manager.levels["fine"][b].vector)

\* ---------------------------------------------------------------- C33
\* C33: single_step_aggregation issues K candidate generations, the i-th
\* (from 0) by pony i mod N, then one generation on the aggregation prompt
\* built from the K candidates in order; it returns the K candidates and
\* writes neither to the embedding manager nor an iteration record.
C33_SingleStep ==
    /\ pc \in {"ss_gen", "ss_final", "returned"} =>
         /\ embedding_manager = [levels |-> EmptyDict, history |-> EmptyDict]
         /\ iteration_history = <<>>
    /\ pc = "ss_gen" => issued.generate <= call.K
    /\ pc = "ss_final" =>
         /\ issued.generate \in {call.K, call.K + 1}
         /\ Len(gen_tasks) = 1
    /\ pc = "returned" =>
         /\ issued.generate = call.K + 1
         /\ Len(result.candidates) = call.K
         /\ \A j \in 1..call.K :
               /\ result.candidates[j].by = (j - 1) % num_ponies
               /\ result.candidates[j].to = QueryPrompt(call.query)
         /\ result.response.by = 0
         /\ result.response.to
               = build_aggregation_prompt(call.query, result.candidates,
                                          call.K)
         /\ result.iterations = <<>>

C33_Witness ==
    /\ pc = "returned"
    /\ call.K = 3
    /\ num_ponies = 2
    /\ result.candidates[2].by = 1
    /\ result.candidates[3].by = 0
    /\ issued.generate = 4

\* ---------------------------------------------------------------- C34
\* C34: after any number of add_to_context calls the buffer holds at most
\* max_context_size entries, and they are the most recently added ones in
\* the order they were added.
C34_ContextIsRecentWindow ==
    /\ Len(context_buffer) <= max_context_size
    /\ api_result.op = "add_to_context" =>
         LET n == api_result.entry
             len == Min(n, max_context_size)
         IN  context_buffer = [k \in 1..len |-> n - len + k]

C34_Witness ==
    /\ api_result.op = "add_to_context"
    /\ api_result.entry = max_context_size + 2
    /\ Len(context_buffer) = max_context_size
    /\ context_buffer[1] = 3
    /\ context_buffer[max_context_size] = max_context_size + 2

\* ---------------------------------------------------------------- C35
\* C35: for every text, the empty one included, generate_embedding of
\* both backends returns a vector of dimension 384 with unit norm.
C35_UnitNormFixedDimension ==
    api_result.op = "generate_embedding" =>
        /\ Len(api_result.vector.direction) = EmbeddingDim
        /\ api_result.vector.unit

\* ---------------------------------------------------------------- C36
\* C36: within a call the iteration records only grow: a record, once
\* appended, keeps its round number, population and diversity; the record
\* appended for round t holds the population as it is at the end of round
\* t; the result returns these records.
C36_RecordsAppendOnly ==
    /\ [](ReturnedNormally =>
             /\ result.iterations = iteration_history
             /\ \A k \in 1..Len(iteration_history) :
                   iteration_history[k].iteration = k
             /\ result.final_population
                   = iteration_history[Len(iteration_history)].population)
    /\ [][n_calls' = n_calls =>
             /\ Len(iteration_history') >= Len(iteration_history)
             /\ \A k \in 1..Len(iteration_history) :
                   iteration_history'[k] = iteration_history[k]
             /\ iteration_history' # iteration_history =>
                   /\ Len(iteration_history') = Len(iteration_history) + 1
                   /\ iteration_history'[Len(iteration_history')]
                         = [iteration |-> t, population |-> population,
                            diversity |->
                                get_diversity_metric(embedding_manager, t)]]_vars

\* A returned call of three rounds whose first record differs from the
\* final population.
C36_Witness ==
    /\ ReturnedNormally
    /\ Len(iteration_history) = 3
    /\ iteration_history[1].population # result.final_population
    /\ iteration_history[1].population # iteration_history[2].population

\* ---------------------------------------------------------------- C37
\* C37: an update_config on one selector changes neither what another
\* selector returns for any query nor the class-level defaults a new
\* selector starts from.
C37_NoSharedSelectorState ==
    [][api_result'.op = "update_config" =>
          /\ config_dicts'[0] = config_dicts[0]
          /\ \A k \in 1..Len(selectors) :
                k # api_result'.selector =>
                    \A q \in SelectorQueries :
                        select_parameters(
                            SelectorOf(config_dicts', selectors', k), q)
                        = select_parameters(
                              SelectorOf(config_dicts, selectors, k), q)]_vars

\* ---------------------------------------------------------------- C38
\* C38: an aggregation that fails because a listed fine vector is missing
\* leaves the store as it was before the call: no empty or partial
\* community level remains.
C38_AggregationAtomic ==
    [][(api_result'.op = "aggregate_to_community"
           /\ api_result'.raised # "") =>
          embedding_manager' = embedding_manager]_vars

\* ---------------------------------------------------------------- C39
RECURSIVE PopulationFromDraws(_, _, _, _, _)
\* The population of round r computed from the query, N, K and the list of
\* values taken from the random source alone: slot j of round r >= 2 uses
\* the value at position (r - 2) * N + j.
PopulationFromDraws(q, N, K, draws, r) ==
    IF r = 1
    THEN [j \in 1..N |-> GenReturn(j - 1, Round1Tasks(N, q)[j].prompt)]
    ELSE LET prev == PopulationFromDraws(q, N, K, draws, r - 1)
         IN  [j \in 1..N |->
                GenReturn(j - 1,
                          AggregationData(j - 1, q, prev,
                                          draws[(r - 2) * N + j].indices,
                                          K).prompt)]

RECURSIVE DistanceSum(_, _)
\* The sum of 1 - dot product over a set of index pairs of vs.
DistanceSum(vs, prs) ==
    IF prs = {} THEN 0
    ELSE LET pr == CHOOSE x \in prs : TRUE
         IN  (1 - Dot(vs[pr[1]], vs[pr[2]])) + DistanceSum(vs, prs \ {pr})

\* The diversity of a population computed from its texts alone.
DiversityFromTexts(pop) ==
    LET vs == [j \in 1..Len(pop) |-> EmbedVector(pop[j])]
        n == Len(vs)
    IN  IF n < 2 THEN [num |-> 0, den |-> 1]
        ELSE [num |-> DistanceSum(vs, {pr \in (1..n) \X (1..n) :
                                          pr[1] < pr[2]}),
              den |-> (n * (n - 1)) \div 2]

\* C39: the first call on a fresh swarm whose capabilities always answer
\* is a function of the query, (N, K, T) and the values it takes from the
\* random source in order, whatever the order in which its tasks run: it
\* takes one sample per slot and round in slot order and then one choice,
\* the subsets of the slots are these samples, and the iteration history
\* and the response it returns are the ones computed from them.
C39_DeterministicGivenDraws ==
    (n_calls = 1 /\ faults = 0) =>
        LET N == num_ponies
            draws == issued.draws
        IN  /\ (pc \in {"gen", "emb", "store", "record"} /\ t >= 2) =>
                  /\ Len(draws) = (t - 1) * N
                  /\ \A j \in 1..N :
                       /\ draws[(t - 2) * N + j].op = "sample"
                       /\ aggregation_data[j].subset_indices
                              = draws[(t - 2) * N + j].indices
            /\ ReturnedNormally =>
                  /\ Len(draws) = (call.T - 1) * N + 1
                  /\ draws[Len(draws)].op = "choice"
                  /\ Len(result.iterations) = call.T
                  /\ \A r \in 1..call.T :
                       LET pop == PopulationFromDraws(call.query, N, call.K,
                                                      draws, r)
                       IN  result.iterations[r]
                               = IterationRecord(r, pop,
                                                 DiversityFromTexts(pop))
                  /\ result.response
                         = PopulationFromDraws(call.query, N, call.K, draws,
                                               call.T)
                               [draws[Len(draws)].indices[1] + 1]

\* A call of two slots and two rounds returned after a task had finished
\* before one created earlier, and its second slot drew the subset (1, 0).
C39_Witness ==
    /\ n_calls = 1 /\ faults = 0
    /\ ReturnedNormally
    /\ num_ponies = 2 /\ call.T >= 2 /\ call.K = 2
    /\ issued.overtaken
    /\ issued.draws[2].indices = <<1, 0>>

\* ---------------------------------------------------------------- C40
\* The sentences of a query: its runs of letters.
Sentences(text) ==
    Cardinality({k \in 1..Len(text) :
                    /\ text[k] = "w"
                    /\ (k = 1 \/ text[k - 1] # "w")})

\* C40: the estimate includes the sentence bonus of 15 exactly when the
\* query has more than three sentences; these queries score 5 without it.
C40_BonusAboveThreeSentences ==
    api_result.op = "estimate_complexity" =>
        api_result.score
            = IF Sentences(api_result.text) > 3 THEN 5 + 15 ELSE 5

====
